---- MODULE Spec2Model ----
(***************************************************************************)
(* Ingestion / association subsystem of call-transcripts.                   *)
(*                                                                         *)
(* State: the relational store (accounts, transcripts, transcript_segments),*)
(* the queue consumers running single-call sync (transcriptProcessor), the  *)
(* bulk sync loop (periodicGongSync handler and POST /api/:platform/sync),  *)
(* and the AccountAssociationService with its in-memory custom rules.       *)
(* Every awaited store or vendor call is one step, so that concurrent       *)
(* invocations interleave exactly at the awaits of the code.                *)
(***************************************************************************)
EXTENDS Integers, Sequences, FiniteSets, TLC

VARIABLES
    accounts,       \* table accounts: set of rows [id, name, domain, source]
    transcripts,    \* table transcripts: set of rows, PRIMARY KEY (id)
    segments,       \* table transcript_segments: sequence of rows (no unique key)
    workers,        \* queue consumers: processTranscriptRecord invocations
    delivered,      \* number of queue messages handed to consumers so far
    bulk,           \* the bulk sync invocation (handler loop / sync endpoint)
    bulkRuns,       \* number of bulk syncs started so far
    svc,            \* the running AccountAssociationService.determineAccountAssociation call
    customRules,    \* AccountAssociationService.customRules
    assocLog,       \* history: results returned by the association functions
    runLog,         \* history: outcomes of finished single-call syncs
    bulkLog,        \* history: summaries returned by finished bulk syncs
    audit,          \* table account_associations: sequence of rows
    reassoc,        \* the running reassociateTranscript call
    reassocLog,     \* history: reassociateTranscript calls that returned
    queue,          \* the transcript queue and its dead-letter queue, per message
    invocation,     \* the running invocation of the queue consumer handler
    invLog,         \* history: finished invocations of the queue consumer handler
    listing,        \* the running listCalls call of an adapter, and its vendor
    client,         \* one adapter object: its credentials and the headers of its requests
    hooks,          \* the webhook endpoints: the clock, the requests answered, the sends
    factory,        \* PlatformFactory.instances, and the calls of the factory so far
    revision,       \* how often the vendors have re-transcribed their calls
    legacy          \* the legacy Fireflies SyncService and its api_usage table

dbVars == <<accounts, transcripts, segments>>

\* ingestion and association
coreVars == <<accounts, transcripts, segments, workers, delivered, bulk, bulkRuns,
              svc, customRules, assocLog, runLog, bulkLog>>

\* manual reassociation
auditVars == <<audit, reassoc, reassocLog>>

\* the transport of the queue consumer
queueVars == <<queue, invocation, invLog>>

\* the webhook endpoints, the adapter factory, the vendors' revisions
moreVars == <<hooks, factory, revision, legacy>>

extVars == <<auditVars, queueVars, listing, client, moreVars>>

vars == <<coreVars, extVars>>

(***************************************************************************)
(* Bounds of the model.                                                    *)
(***************************************************************************)
MaxDeliveries == 2      \* queue messages delivered in one behaviour
MaxRaceDeliveries == 1  \* queue messages delivered while bulk syncs run
MaxBulkRuns == 2        \* bulk syncs started in one behaviour
MaxCalls == 2           \* calls returned by one listing
MaxFailures == 2        \* injected vendor / store failures per bulk sync
MaxRules == 3           \* custom rules held by the service
MaxDirectCalls == 3     \* association calls run one after another
MaxRuleCalls == 1       \* association calls answered while the rules are edited
MaxReassociations == 2  \* reassociateTranscript calls in one behaviour
MaxRejections == 1      \* records failed by an injected vendor failure
MaxInvocations == 3     \* invocations of the queue consumer handler
MaxListed == 3          \* calls of a small vendor result sequence
BigListed == 120        \* calls of a vendor result sequence longer than a page
MaxLimit == 4           \* small values of the limit option
BigLimit == 150         \* a limit above the page size of every adapter
MaxAuthCalls == 3       \* authenticate calls on one adapter object
MaxWebhooks == 2        \* webhook requests in one behaviour
MaxClock == 1           \* milliseconds that pass between webhook requests
MaxFactoryCalls == 3    \* createClient and clearCache calls in one behaviour
MaxRevisions == 2       \* re-transcriptions of the calls by the vendors
MaxSeedCalls == 1       \* association calls made before the first sync
MaxAttendees == 3       \* attendees of a call handed to the service directly
MaxHeuristicCalls == 2  \* association calls made on such calls
MaxApiRequests == 3     \* API requests an adapter object sends in one behaviour
MaxLegacyRequests == 4  \* requests the legacy service issues in one behaviour
MaxLegacyBatches == 3   \* full batches the vendor has for a full sync
MaxVendorPage == 2      \* calls a vendor with small pages serves per page

Workers == {"w1", "w2"}
Platforms == {"gong", "fireflies"}
CallIds == {"c1", "c2", "c3"}

(***************************************************************************)
(* Strings.  TLC treats a string as a sequence of one-character strings,   *)
(* so the JavaScript string functions are computed character by character. *)
(***************************************************************************)
UpperChars == "ABCDEFGHIJKLMNOPQRSTUVWXYZ"
LowerChars == "abcdefghijklmnopqrstuvwxyz"

UpperSet == {SubSeq(UpperChars, i, i) : i \in 1..Len(UpperChars)}
LowerOf ==
    [c \in UpperSet |->
        LET i == CHOOSE j \in 1..Len(UpperChars) : SubSeq(UpperChars, j, j) = c
        IN  SubSeq(LowerChars, i, i)]

\* String.prototype.toLowerCase on one character
LowerChar(c) == IF c \in UpperSet THEN LowerOf[c] ELSE c

RECURSIVE ToLowerCase(_)
ToLowerCase(s) ==
    IF Len(s) = 0 THEN "" ELSE LowerChar(SubSeq(s, 1, 1)) \o ToLowerCase(Tail(s))

\* index of the first occurrence of the character c in s at or after from, 0 if none
RECURSIVE IndexOfChar(_, _, _)
IndexOfChar(s, c, from) ==
    IF from > Len(s) THEN 0
    ELSE IF SubSeq(s, from, from) = c THEN from
    ELSE IndexOfChar(s, c, from + 1)

NoDomain == "<undefined>"

\* email.split('@')[1]: the text between the first '@' and the next one (or the
\* end); undefined when the email holds no '@'
EmailDomain(email) ==
    LET at == IndexOfChar(email, "@", 1)
    IN  IF at = 0 THEN NoDomain
        ELSE LET nxt == IndexOfChar(email, "@", at + 1)
             IN  SubSeq(email, at + 1, IF nxt = 0 THEN Len(email) ELSE nxt - 1)

\* JavaScript truthiness of the value email.split('@')[1]
Truthy(domain) == domain # NoDomain /\ domain # ""

\* sub occurs in s (String.prototype.includes)
Includes(s, sub) ==
    \E i \in 1..(Len(s) - Len(sub) + 1) : SubSeq(s, i, i + Len(sub) - 1) = sub

\* s.endsWith(suffix)
EndsWith(s, suffix) ==
    Len(suffix) <= Len(s) /\ SubSeq(s, Len(s) - Len(suffix) + 1, Len(s)) = suffix

\* segments.map(s => s.text).join(' ')
RECURSIVE JoinText(_)
JoinText(texts) ==
    IF Len(texts) = 0 THEN ""
    ELSE IF Len(texts) = 1 THEN texts[1]
    ELSE texts[1] \o " " \o JoinText(Tail(texts))

\* the set of the elements of a sequence
Range(seq) == {seq[i] : i \in 1..Len(seq)}

(***************************************************************************)
(* The vendors: what getTranscript returns for each call.  A call keeps    *)
(* its content (re-fetching gives a value-equal transcript) until the      *)
(* vendor re-transcribes it.                                               *)
(***************************************************************************)
Attendee(email, company) == [email |-> email, company |-> company]

VendorAttendees(platform, callId) ==
    IF platform = "gong" THEN
        CASE callId = "c1" -> <<Attendee("john@gmail.com", ""), Attendee("jane@acme.com", "")>>
          [] callId = "c2" -> <<Attendee("bob@acme.com", "Acme Inc"), Attendee("amy@beta.io", "")>>
          [] OTHER         -> <<Attendee("kim@gmail.com", "")>>
    ELSE
        CASE callId = "c1" -> <<Attendee("amy@beta.io", "")>>
          [] callId = "c2" -> <<Attendee("pat@protonmail.com", ""), Attendee("jane@acme.com", "")>>
          [] OTHER         -> <<Attendee("Sam@Gmail.com", ""), Attendee("amy@beta.io", "")>>

\* the segments of a call as first transcribed
FirstSegments(platform, callId) ==
    IF platform = "gong" THEN
        CASE callId = "c1" -> <<"hello", "acme">>
          [] callId = "c2" -> <<"pricing">>
          [] OTHER         -> <<>>
    ELSE
        CASE callId = "c1" -> <<"intro", "beta">>
          [] callId = "c2" -> <<"demo">>
          [] OTHER         -> <<"recap">>

\* a re-transcription merges the segments into one amended segment; a further
\* one leaves a transcript without segments
VendorSegments(platform, callId) ==
    LET first == FirstSegments(platform, callId)
    IN  CASE revision = 0 -> first
          [] revision = 1 -> IF Len(first) = 0 THEN <<>> ELSE <<JoinText(first) \o " (amended)">>
          [] OTHER        -> <<>>

VendorTitle(platform, callId) ==
    IF platform = "gong" THEN
        CASE callId = "c1" -> "Acme Renewal"
          [] callId = "c2" -> "weekly sync"
          [] OTHER         -> "intro call"
    ELSE
        CASE callId = "c1" -> "Beta kickoff"
          [] callId = "c2" -> "Demo"
          [] OTHER         -> "recap"

\* String.prototype.trim for texts whose only whitespace is the space
RECURSIVE Trim(_)
Trim(s) ==
    IF Len(s) = 0 THEN s
    ELSE IF SubSeq(s, 1, 1) = " " THEN Trim(Tail(s))
    ELSE IF SubSeq(s, Len(s), Len(s)) = " " THEN Trim(SubSeq(s, 1, Len(s) - 1))
    ELSE s

\* fullText += sentence.text + ' ' for every sentence
RECURSIVE Spaced(_)
Spaced(texts) ==
    IF Len(texts) = 0 THEN "" ELSE texts[1] \o " " \o Spaced(Tail(texts))

\* GongClient.getTranscript: fullText.trim()
GongFullText(texts) == Trim(Spaced(texts))

\* PlatformAdapter.getTranscript(callId) of the adapter of `platform`
GetTranscript(platform, callId) ==
    [ callId   |-> callId,
      segments |-> VendorSegments(platform, callId),
      fullText |-> IF platform = "gong"
                   THEN GongFullText(VendorSegments(platform, callId))
                   ELSE JoinText(VendorSegments(platform, callId)),
      metadata |-> [ id        |-> callId,
                     title     |-> VendorTitle(platform, callId),
                     attendees |-> VendorAttendees(platform, callId),
                     platform  |-> platform ] ]

(***************************************************************************)
(* The relational store (Supabase schema).                                 *)
(***************************************************************************)
AccountIds == {a.id : a \in accounts}

\* accounts.id UUID DEFAULT gen_random_uuid(): a fresh id for each inserted row
NewAccountId == "uuid-" \o ToString(Cardinality(accounts) + 1)

\* whether a text value is accepted by a UUID column
IsUuid(id) == Len(id) >= 5 /\ SubSeq(id, 1, 5) = "uuid-"

\* variant: the lookup filters on the name column
AccountsWithDomainByName(domain) == {a \in accounts : a.name = domain}

\* from('accounts').select().eq('domain', domain).single(): the row or none
AccountsWithDomain(domain) == {a \in accounts : a.domain = domain}

\* from('accounts').insert(...): domain VARCHAR UNIQUE NOT NULL
AccountInsertError(domain) ==
    IF AccountsWithDomain(domain) # {} THEN "23505" ELSE "none"

AccountRow(name, domain, source) ==
    [id |-> NewAccountId, name |-> name, domain |-> domain, source |-> source]

\* from('transcripts').select('*').eq('id', transcriptId)
TranscriptsWithId(id) == {t \in transcripts : t.id = id}

\* from('transcripts').insert(row): id is the PRIMARY KEY, account_id is
\* UUID NOT NULL REFERENCES accounts(id).  A value that is no UUID is rejected
\* when the statement is bound (22P02), the primary key is checked when the
\* row is inserted (23505), the foreign key at the end of the statement (23503).
TranscriptInsertError(row) ==
    IF ~IsUuid(row.account_id) THEN "22P02"
    ELSE IF TranscriptsWithId(row.id) # {} THEN "23505"
    ELSE IF row.account_id \notin AccountIds THEN "23503"
    ELSE "none"

\* ai_content: the vendor's AI content, null, or the {} of `aiContent || {}`
NullContent == "<null>"
EmptyContent == "{}"

TranscriptRow(transcript, accountId, source) ==
    [ id         |-> transcript.callId,
      account_id |-> accountId,
      platform   |-> transcript.metadata.platform,
      title      |-> transcript.metadata.title,
      full_text  |-> transcript.fullText,
      ai_content |-> EmptyContent,
      source     |-> source ]

\* segments.map((segment, index) => ({transcript_id, sequence_number: index, ...}))
SegmentRows(transcriptId, segs) ==
    [i \in 1..Len(segs) |->
        [transcript_id |-> transcriptId, sequence_number |-> i - 1, text |-> segs[i]]]

\* from('transcript_segments').delete().eq('transcript_id', transcriptId)
DeleteSegments(table, transcriptId) ==
    SelectSeq(table, LAMBDA s : s.transcript_id # transcriptId)

(***************************************************************************)
(* The domain heuristic shared by both association functions:              *)
(*   domains.reduce(count) ; Object.entries(counts).sort(([,a],[,b]) =>    *)
(*   b - a)[0]                                                             *)
(* Object.entries lists the keys in insertion (first-seen) order and the   *)
(* sort is stable, so the winner is the first-seen domain of highest count.*)
(***************************************************************************)
DomainCount(domains, d) == Cardinality({i \in 1..Len(domains) : domains[i] = d})

\* variant: among the domains of highest count the one seen last wins
LastMostFrequentDomain(domains) ==
    IF Len(domains) = 0 THEN NoDomain
    ELSE LET best == CHOOSE i \in 1..Len(domains) :
                        /\ \A j \in 1..Len(domains) :
                              DomainCount(domains, domains[j]) <= DomainCount(domains, domains[i])
                        /\ \A j \in (i + 1)..Len(domains) :
                              DomainCount(domains, domains[j]) < DomainCount(domains, domains[i])
         IN  domains[best]

MostFrequentDomain(domains) ==
    IF Len(domains) = 0 THEN NoDomain
    ELSE LET best == CHOOSE i \in 1..Len(domains) :
                        /\ \A j \in 1..Len(domains) :
                              DomainCount(domains, domains[j]) <= DomainCount(domains, domains[i])
                        /\ \A j \in 1..(i - 1) :
                              DomainCount(domains, domains[j]) < DomainCount(domains, domains[i])
         IN  domains[best]

\* attendees.map(attendee => attendee.email.split('@')[1])
AttendeeDomains(attendees) == [i \in 1..Len(attendees) |-> EmailDomain(attendees[i].email)]

(***************************************************************************)
(* Single-call sync: lambdas/transcriptProcessor.ts                        *)
(***************************************************************************)
LambdaInternalDomains ==
    {"gmail.com", "yahoo.com", "hotmail.com", "outlook.com", "icloud.com", "me.com", "aol.com"}

isInternalDomain(domain) == ToLowerCase(domain) \in LambdaInternalDomains

\* the domains kept by determineAccountAssociation of the queue consumer
LambdaExternalDomains(attendees) ==
    SelectSeq(AttendeeDomains(attendees), LAMBDA d : Truthy(d) /\ ~isInternalDomain(d))

LambdaPrimaryDomain(transcript) ==
    MostFrequentDomain(LambdaExternalDomains(transcript.metadata.attendees))

IdleWorker ==
    [pc |-> "idle", platform |-> "", callId |-> "", primaryDomain |-> NoDomain,
     accountId |-> "", updated |-> FALSE, i |-> 0, startedAfter |-> 0,
     aiContent |-> NullContent, aiFailed |-> FALSE]

WorkerTranscript(w) == GetTranscript(workers[w].platform, workers[w].callId)

AssocEntry(path, transcript, primaryDomain, accountId, created, rule) ==
    [path |-> path, platform |-> transcript.metadata.platform, callId |-> transcript.callId,
     primaryDomain |-> primaryDomain, accountId |-> accountId,
     created |-> created, rule |-> rule]

\* determineAccountAssociation returned accountId to processTranscriptRecord
LambdaAssociated(w, accountId, created) ==
    /\ workers' = [workers EXCEPT ![w].pc = "insertTranscript", ![w].accountId = accountId]
    /\ assocLog' = Append(assocLog,
          AssocEntry("lambda", WorkerTranscript(w), workers[w].primaryDomain,
                     accountId, created, "domain-based"))

\* processTranscriptRecord settled: the promise of the record is fulfilled or rejected
WorkerSettled(w, outcome, error) ==
    /\ workers' = [workers EXCEPT ![w] = IdleWorker]
    /\ runLog' = Append(runLog,
          [worker |-> w, platform |-> workers[w].platform, callId |-> workers[w].callId,
           outcome |-> outcome, error |-> error, updated |-> workers[w].updated,
           accountId |-> workers[w].accountId, startedAfter |-> workers[w].startedAfter,
           aiFailed |-> workers[w].aiFailed,
           segments |-> GetTranscript(workers[w].platform, workers[w].callId).segments])

\* the queue hands a message {platform, callId, source: 'webhook'} to a consumer
Deliver(w) ==
    /\ workers[w].pc = "idle"
    /\ delivered < MaxDeliveries
    /\ \E platform \in Platforms, callId \in CallIds :
          workers' = [workers EXCEPT ![w] =
              [IdleWorker EXCEPT !.pc = "getTranscript", !.platform = platform,
                                 !.callId = callId, !.startedAfter = Len(runLog)]]
    /\ delivered' = delivered + 1
    /\ UNCHANGED <<dbVars, bulk, bulkRuns, svc, customRules, assocLog, runLog, bulkLog, extVars>>

\* await client.authenticate(); await client.getTranscript(message.callId)
WorkerGetTranscript(w) ==
    /\ workers[w].pc = "getTranscript"
    /\ workers' = [workers EXCEPT ![w].pc = "getAIContent"]
    /\ UNCHANGED <<dbVars, delivered, bulk, bulkRuns, svc, customRules, assocLog, runLog,
                   bulkLog, extVars>>

\* what client.getAIContent(callId) returns for a call
AIContentOf(platform, callId) == "ai-" \o platform \o "-" \o callId

\* with aiContent settled: determineAccountAssociation(transcript) up to its first
\* store call
WorkerAssociate(w, aiContent, aiFailed) ==
    LET primaryDomain == LambdaPrimaryDomain(WorkerTranscript(w))
        wk == [workers[w] EXCEPT !.aiContent = aiContent, !.aiFailed = aiFailed]
    IN  /\ IF primaryDomain = NoDomain
           THEN /\ workers' = [workers EXCEPT ![w] =
                                   [wk EXCEPT !.pc = "insertTranscript",
                                              !.accountId = "unknown-" \o wk.callId]]
                /\ assocLog' = Append(assocLog,
                      AssocEntry("lambda", WorkerTranscript(w), NoDomain,
                                 "unknown-" \o wk.callId, FALSE, "unknown"))
           ELSE /\ workers' = [workers EXCEPT ![w] =
                                   [wk EXCEPT !.pc = "lookupAccount",
                                              !.primaryDomain = primaryDomain]]
                /\ UNCHANGED assocLog
        /\ UNCHANGED runLog

\* variant: the failure of getAIContent is thrown on to the catch block of
\* processTranscriptRecord, which re-throws it
AIContentFailureRethrown(w) ==
    /\ workers' = [workers EXCEPT ![w] = IdleWorker]
    /\ runLog' = Append(runLog,
          [worker |-> w, platform |-> workers[w].platform, callId |-> workers[w].callId,
           outcome |-> "rejected", error |-> "AI content not available",
           updated |-> FALSE, accountId |-> "", startedAfter |-> workers[w].startedAfter,
           aiFailed |-> TRUE, segments |-> <<>>])
    /\ UNCHANGED assocLog

\* catch (error) { console.warn(...) }: aiContent stays null and the run goes on
AIContentFailureCaught(w) == WorkerAssociate(w, NullContent, TRUE)

\* aiContent = await client.getAIContent(message.callId)
WorkerGetAIContent(w) ==
    /\ workers[w].pc = "getAIContent"
    /\ WorkerAssociate(w, AIContentOf(workers[w].platform, workers[w].callId), FALSE)
    /\ UNCHANGED <<dbVars, delivered, bulk, bulkRuns, svc, customRules, bulkLog, extVars>>

\* client.getAIContent(message.callId) throws
WorkerAIContentFails(w) ==
    /\ workers[w].pc = "getAIContent"
    /\ AIContentFailureCaught(w)
    /\ UNCHANGED <<dbVars, delivered, bulk, bulkRuns, svc, customRules, bulkLog, extVars>>

\* from('accounts').select('id').eq('domain', primaryDomain).single()
WorkerLookupAccount(w) ==
    /\ workers[w].pc = "lookupAccount"
    /\ LET existing == AccountsWithDomain(workers[w].primaryDomain)
       IN  IF existing # {}
           THEN LambdaAssociated(w, (CHOOSE a \in existing : TRUE).id, FALSE)
           ELSE /\ workers' = [workers EXCEPT ![w].pc = "insertAccount"]
                /\ UNCHANGED assocLog
    /\ UNCHANGED <<dbVars, delivered, bulk, bulkRuns, svc, customRules, runLog, bulkLog, extVars>>

\* from('accounts').insert({name: primaryDomain, domain: primaryDomain}); on error
\* the function returns `domain-${primaryDomain}`
WorkerInsertAccount(w) ==
    /\ workers[w].pc = "insertAccount"
    /\ LET domain == workers[w].primaryDomain
       IN  IF AccountInsertError(domain) = "none"
           THEN /\ accounts' = accounts \cup {AccountRow(domain, domain, "")}
                /\ LambdaAssociated(w, NewAccountId, TRUE)
           ELSE /\ UNCHANGED accounts
                /\ LambdaAssociated(w, "domain-" \o domain, FALSE)
    /\ UNCHANGED <<transcripts, segments, delivered, bulk, bulkRuns, svc, customRules,
                   runLog, bulkLog, extVars>>

\* after the transcript row is written: if (transcript.segments.length > 0) ...
WorkerAfterTranscript(w, updated) ==
    IF Len(WorkerTranscript(w).segments) > 0
    THEN /\ workers' = [workers EXCEPT ![w].pc = "deleteSegments", ![w].updated = updated]
         /\ UNCHANGED runLog
    ELSE /\ workers' = [workers EXCEPT ![w] = IdleWorker]
         /\ runLog' = Append(runLog,
               [worker |-> w, platform |-> workers[w].platform, callId |-> workers[w].callId,
                outcome |-> "fulfilled", error |-> "", updated |-> updated,
                accountId |-> workers[w].accountId, startedAfter |-> workers[w].startedAfter,
                aiFailed |-> workers[w].aiFailed, segments |-> <<>>])

\* storeTranscript: from('transcripts').insert({id: transcript.callId, ...})
WorkerInsertTranscript(w) ==
    /\ workers[w].pc = "insertTranscript"
    /\ LET row == [TranscriptRow(WorkerTranscript(w), workers[w].accountId, "webhook")
                      EXCEPT !.ai_content = workers[w].aiContent]
           err == TranscriptInsertError(row)
       IN  IF err = "none"
           THEN /\ transcripts' = transcripts \cup {row}
                /\ WorkerAfterTranscript(w, FALSE)
           ELSE IF err = "23505"
           THEN /\ workers' = [workers EXCEPT ![w].pc = "updateTranscript"]
                /\ UNCHANGED <<transcripts, runLog>>
           ELSE /\ WorkerSettled(w, "rejected", "Failed to store transcript")
                /\ UNCHANGED transcripts
    /\ UNCHANGED <<accounts, segments, delivered, bulk, bulkRuns, svc, customRules,
                   assocLog, bulkLog, extVars>>

\* variant: the update also carries account_id: accountId
LambdaUpdatedRowWithAccount(row, transcript, accountId, aiContent) ==
    [row EXCEPT !.full_text = transcript.fullText, !.ai_content = aiContent,
                !.account_id = accountId]

\* the row after update({full_text, ai_content, processed_at, raw_metadata}) of
\* storeTranscript(transcript, accountId, aiContent)
LambdaUpdatedRow(row, transcript, accountId, aiContent) ==
    [row EXCEPT !.full_text = transcript.fullText, !.ai_content = aiContent]

\* storeTranscript, duplicate key: from('transcripts').update({...}).eq('id', callId)
WorkerUpdateTranscript(w) ==
    /\ workers[w].pc = "updateTranscript"
    /\ transcripts' = {IF t.id = workers[w].callId
                       THEN LambdaUpdatedRow(t, WorkerTranscript(w), workers[w].accountId,
                                             workers[w].aiContent)
                       ELSE t : t \in transcripts}
    /\ WorkerAfterTranscript(w, TRUE)
    /\ UNCHANGED <<accounts, segments, delivered, bulk, bulkRuns, svc, customRules,
                   assocLog, bulkLog, extVars>>

\* from('transcript_segments').delete().eq('transcript_id', transcript.callId)
WorkerDeleteSegments(w) ==
    /\ workers[w].pc = "deleteSegments"
    /\ segments' = DeleteSegments(segments, workers[w].callId)
    /\ workers' = [workers EXCEPT ![w].pc = "insertSegments", ![w].i = 0]
    /\ UNCHANGED <<accounts, transcripts, delivered, bulk, bulkRuns, svc, customRules,
                   assocLog, runLog, bulkLog, extVars>>

batchSize == 100

\* segments.slice(i, i + batchSize)
Slice(seq, from, to) == SubSeq(seq, from + 1, IF to < Len(seq) THEN to ELSE Len(seq))

\* for (i = 0; i < segments.length; i += batchSize) insert(batch)
WorkerInsertSegments(w) ==
    /\ workers[w].pc = "insertSegments"
    /\ LET rows == SegmentRows(workers[w].callId, WorkerTranscript(w).segments)
           i == workers[w].i
       IN  /\ segments' = segments \o Slice(rows, i, i + batchSize)
           /\ IF i + batchSize < Len(rows)
              THEN /\ workers' = [workers EXCEPT ![w].i = i + batchSize]
                   /\ UNCHANGED runLog
              ELSE WorkerSettled(w, "fulfilled", "")
    /\ UNCHANGED <<accounts, transcripts, delivered, bulk, bulkRuns, svc, customRules,
                   assocLog, bulkLog, extVars>>

WorkerStep(w) ==
    \/ WorkerGetTranscript(w)
    \/ WorkerGetAIContent(w)
    \/ WorkerLookupAccount(w)
    \/ WorkerInsertAccount(w)
    \/ WorkerInsertTranscript(w)
    \/ WorkerUpdateTranscript(w)
    \/ WorkerDeleteSegments(w)
    \/ WorkerInsertSegments(w)

(***************************************************************************)
(* AccountAssociationService: services/accountAssociation.ts               *)
(***************************************************************************)
internalDomains ==
    {"gmail.com", "yahoo.com", "hotmail.com", "outlook.com", "icloud.com", "me.com",
     "aol.com", "protonmail.com", "tutanota.com"}

extractExternalDomains(attendees) ==
    SelectSeq(AttendeeDomains(attendees),
              LAMBDA d : Truthy(d) /\ ToLowerCase(d) \notin internalDomains)

\* new RegExp(pattern, 'i').test(text) for a pattern without metacharacters
RegexTestI(pattern, text) == Includes(ToLowerCase(text), ToLowerCase(pattern))

Rule(id, type, pattern, accountId, priority, active) ==
    [id |-> id, name |-> id, type |-> type, pattern |-> pattern,
     accountId |-> accountId, priority |-> priority, active |-> active]

\* a confidence is kept as the exact fraction num / den
Confidence(num, den) == [num |-> num, den |-> den]

\* Math.min(a, b)
MinConfidence(a, b) == IF a.num * b.den <= b.num * a.den THEN a ELSE b

NoResult ==
    [accountId |-> "", rule |-> "<null>", created |-> FALSE, confidence |-> Confidence(0, 1)]

Result(accountId, rule, created, confidence) ==
    [accountId |-> accountId, rule |-> rule, created |-> created, confidence |-> confidence]

evaluateDomainRule(rule, transcript) ==
    IF rule.pattern = "" \/ rule.accountId = "" THEN NoResult
    ELSE IF \E d \in Range(extractExternalDomains(transcript.metadata.attendees)) :
               ToLowerCase(d) = ToLowerCase(rule.pattern)
         THEN Result(rule.accountId, rule.name, FALSE, Confidence(9, 10))
         ELSE NoResult

evaluateEmailPatternRule(rule, transcript) ==
    IF rule.pattern = "" \/ rule.accountId = "" THEN NoResult
    ELSE IF \E a \in Range(transcript.metadata.attendees) : RegexTestI(rule.pattern, a.email)
         THEN Result(rule.accountId, rule.name, FALSE, Confidence(8, 10))
         ELSE NoResult

evaluateTitlePatternRule(rule, transcript) ==
    IF rule.pattern = "" \/ rule.accountId = "" THEN NoResult
    ELSE IF RegexTestI(rule.pattern, transcript.metadata.title)
         THEN Result(rule.accountId, rule.name, FALSE, Confidence(7, 10))
         ELSE NoResult

evaluateRule(rule, transcript) ==
    CASE rule.type = "domain"        -> evaluateDomainRule(rule, transcript)
      [] rule.type = "email_pattern" -> evaluateEmailPatternRule(rule, transcript)
      [] rule.type = "title_pattern" -> evaluateTitlePatternRule(rule, transcript)
      [] rule.type = "manual"        ->
            IF rule.accountId # ""
            THEN Result(rule.accountId, rule.name, FALSE, Confidence(10, 10)) ELSE NoResult
      [] OTHER                       -> NoResult

\* Array.prototype.sort((a, b) => b.priority - a.priority): stable insertion of
\* each element after the elements of priority at least its own
RECURSIVE SortByPriorityDesc(_)
SortByPriorityDesc(rules) ==
    IF Len(rules) = 0 THEN <<>>
    ELSE LET rest == SortByPriorityDesc(SubSeq(rules, 1, Len(rules) - 1))
             last == rules[Len(rules)]
             k == Cardinality({i \in 1..Len(rest) : rest[i].priority >= last.priority})
         IN  SubSeq(rest, 1, k) \o <<last>> \o SubSeq(rest, k + 1, Len(rest))

\* variant: the inactive rules are not filtered out
AllRulesSorted(rules) == SortByPriorityDesc(rules)

\* this.customRules.filter(rule => rule.active).sort(...)
ActiveRules(rules) == SortByPriorityDesc(SelectSeq(rules, LAMBDA r : r.active))

\* for (const rule of activeRules) { result = evaluateRule(...); if (result) return result }
RECURSIVE FirstMatch(_, _)
FirstMatch(rules, transcript) ==
    IF Len(rules) = 0 THEN NoResult
    ELSE IF evaluateRule(Head(rules), transcript) # NoResult
         THEN evaluateRule(Head(rules), transcript)
         ELSE FirstMatch(Tail(rules), transcript)

applyCustomRules(rules, transcript) == FirstMatch(ActiveRules(rules), transcript)

\* the attendee.company of the first attendee of the domain that has one
CompanyOf(domain, transcript) ==
    LET att == transcript.metadata.attendees
        hits == {i \in 1..Len(att) :
                    EndsWith(att[i].email, "@" \o domain) /\ att[i].company # ""}
    IN  IF hits = {} THEN ""
        ELSE att[CHOOSE i \in hits : \A j \in hits : i <= j].company

\* String.prototype.toUpperCase on one character
UpperChar(c) ==
    IF \E i \in 1..Len(LowerChars) : SubSeq(LowerChars, i, i) = c
    THEN LET i == CHOOSE j \in 1..Len(LowerChars) : SubSeq(LowerChars, j, j) = c
         IN  SubSeq(UpperChars, i, i)
    ELSE c

generateAccountName(domain, transcript) ==
    IF CompanyOf(domain, transcript) # "" THEN CompanyOf(domain, transcript)
    ELSE LET dot == IndexOfChar(domain, ".", 1)
             mainPart == IF dot = 0 THEN domain ELSE SubSeq(domain, 1, dot - 1)
         IN  IF Len(mainPart) = 0 THEN ""
             ELSE UpperChar(SubSeq(mainPart, 1, 1)) \o Tail(mainPart)

ServicePrimaryDomain(transcript) ==
    MostFrequentDomain(extractExternalDomains(transcript.metadata.attendees))

\* count / totalExternalAttendees + 0.3, before the cap
UncappedConfidence(domains, primaryDomain) ==
    Confidence(10 * DomainCount(domains, primaryDomain) + 3 * Len(domains), 10 * Len(domains))

\* const confidence = Math.min(0.9, count / totalExternalAttendees + 0.3)
DomainConfidence(domains, primaryDomain) ==
    MinConfidence(Confidence(9, 10), UncappedConfidence(domains, primaryDomain))

ServiceConfidence(transcript) ==
    DomainConfidence(extractExternalDomains(transcript.metadata.attendees),
                     ServicePrimaryDomain(transcript))

IdleSvc ==
    [pc |-> "idle", caller |-> "", transcript |-> GetTranscript("gong", "c1"),
     primaryDomain |-> NoDomain, result |-> NoResult, error |-> ""]

\* determineAccountAssociation(transcript) up to its first store call: the custom
\* rules, then the external domains
SvcBegin(caller, transcript) ==
    LET custom == applyCustomRules(customRules, transcript)
        frame == [IdleSvc EXCEPT !.caller = caller, !.transcript = transcript]
    IN  IF custom # NoResult
        THEN [frame EXCEPT !.pc = "returned", !.result = custom]
        ELSE IF Len(extractExternalDomains(transcript.metadata.attendees)) = 0
        THEN [frame EXCEPT !.pc = "createFallback"]
        ELSE [frame EXCEPT !.pc = "getAccountByDomain",
                           !.primaryDomain = ServicePrimaryDomain(transcript)]

\* applyDomainBasedAssociation: await this.repository.getAccountByDomain(primaryDomain)
SvcGetAccountByDomain ==
    /\ svc.pc = "getAccountByDomain"
    /\ LET existing == AccountsWithDomain(svc.primaryDomain)
       IN  svc' = IF existing # {}
                  THEN [svc EXCEPT !.pc = "returned",
                           !.result = Result((CHOOSE a \in existing : TRUE).id,
                                             "domain-based", FALSE,
                                             ServiceConfidence(svc.transcript))]
                  ELSE [svc EXCEPT !.pc = "createAccount"]
    /\ UNCHANGED <<dbVars, workers, delivered, bulk, bulkRuns, customRules, assocLog,
                   runLog, bulkLog, extVars>>

\* TranscriptRepository.createAccount: insert, and throw on any error
createAccount(name, domain, source, rule, confidence) ==
    IF AccountInsertError(domain) = "none"
    THEN /\ accounts' = accounts \cup {AccountRow(name, domain, source)}
         /\ svc' = [svc EXCEPT !.pc = "returned",
                               !.result = Result(NewAccountId, rule, TRUE, confidence)]
    ELSE /\ UNCHANGED accounts
         /\ svc' = [svc EXCEPT !.pc = "threw", !.error = "Failed to create account"]

\* applyDomainBasedAssociation: account = await this.repository.createAccount(...)
SvcCreateAccount ==
    /\ svc.pc = "createAccount"
    /\ createAccount(generateAccountName(svc.primaryDomain, svc.transcript),
                     svc.primaryDomain, "auto-created", "domain-based",
                     ServiceConfidence(svc.transcript))
    /\ UNCHANGED <<transcripts, segments, workers, delivered, bulk, bulkRuns, customRules,
                   assocLog, runLog, bulkLog, extVars>>

\* createFallbackAccount: createAccount(`Unknown (${callId})`, `unknown-${callId}`, ...)
SvcCreateFallback ==
    /\ svc.pc = "createFallback"
    /\ createAccount("Unknown (" \o svc.transcript.callId \o ")",
                     "unknown-" \o svc.transcript.callId, "fallback", "fallback",
                     Confidence(3, 10))
    /\ UNCHANGED <<transcripts, segments, workers, delivered, bulk, bulkRuns, customRules,
                   assocLog, runLog, bulkLog, extVars>>

SvcStep == SvcGetAccountByDomain \/ SvcCreateAccount \/ SvcCreateFallback

(***************************************************************************)
(* Direct use of the service: determineAccountAssociation calls and the    *)
(* management of the custom rules.                                         *)
(***************************************************************************)
VendorTranscripts == {GetTranscript(p, c) : p \in Platforms, c \in CallIds}

RuleInputs ==
    { Rule("manual-hi", "manual", "", "uuid-manual", 3, TRUE),
      Rule("manual-off", "manual", "", "uuid-manual", 4, FALSE),
      Rule("manual-inert", "manual", "", "", 4, TRUE),
      Rule("domain-acme", "domain", "ACME.com", "uuid-acme", 2, TRUE),
      Rule("domain-beta", "domain", "beta.io", "uuid-beta", 3, TRUE),
      Rule("email-beta", "email_pattern", "@beta", "uuid-mail", 1, TRUE),
      Rule("title-renewal", "title_pattern", "renewal", "uuid-title", 2, TRUE) }

\* a caller invokes determineAccountAssociation(transcript)
DirectCall(transcript) ==
    /\ svc.pc = "idle"
    /\ Len(assocLog) < MaxDirectCalls
    /\ svc' = SvcBegin("direct", transcript)
    /\ UNCHANGED <<dbVars, workers, delivered, bulk, bulkRuns, customRules, assocLog,
                   runLog, bulkLog, extVars>>

\* the call returns its AccountAssociationResult, or throws, to the caller
DirectReturn ==
    /\ svc.caller = "direct"
    /\ svc.pc \in {"returned", "threw"}
    /\ assocLog' = Append(assocLog,
          AssocEntry("service", svc.transcript, svc.primaryDomain,
                     svc.result.accountId, svc.result.created,
                     IF svc.pc = "threw" THEN "<threw>" ELSE svc.result.rule))
    /\ svc' = IdleSvc
    /\ UNCHANGED <<dbVars, workers, delivered, bulk, bulkRuns, customRules, runLog, bulkLog, extVars>>

\* variant: the rule is pushed and the list is left as it is
addCustomRuleUnsorted(rule) ==
    /\ Len(customRules) < MaxRules
    /\ customRules' = Append(customRules, rule)
    /\ UNCHANGED <<dbVars, workers, delivered, bulk, bulkRuns, svc, assocLog, runLog, bulkLog, extVars>>

addCustomRule(rule) ==
    /\ Len(customRules) < MaxRules
    /\ customRules' = SortByPriorityDesc(Append(customRules, rule))
    /\ UNCHANGED <<dbVars, workers, delivered, bulk, bulkRuns, svc, assocLog, runLog, bulkLog, extVars>>

removeCustomRule(ruleId) ==
    /\ \E i \in 1..Len(customRules) : customRules[i].id = ruleId
    /\ customRules' = SelectSeq(customRules, LAMBDA r : r.id # ruleId)
    /\ UNCHANGED <<dbVars, workers, delivered, bulk, bulkRuns, svc, assocLog, runLog, bulkLog, extVars>>

(***************************************************************************)
(* Bulk sync: lambdas/periodicGongSync.ts handler ("handler") and          *)
(* ApiServer POST /api/:platform/sync ("api").                             *)
(***************************************************************************)
IdleBulk ==
    [pc |-> "idle", kind |-> "", platform |-> "", calls |-> <<>>, idx |-> 0,
     processed |-> 0, skipped |-> 0, errors |-> 0, details |-> <<>>,
     accountId |-> "", i |-> 0, fetches |-> 0, writes |-> 0, failures |-> 0,
     persistedBefore |-> FALSE]

\* the calls of a vendor, in the order it lists them
VendorCalls == <<"c1", "c2", "c3">>

\* the listings a window and limit can return: calls in vendor order, each once,
\* at most MaxCalls of them
Listings ==
    {l \in UNION {[1..n -> CallIds] : n \in 0..MaxCalls} :
        \A i, j \in 1..Len(l) : i < j =>
            \E a, b \in 1..Len(VendorCalls) :
                a < b /\ VendorCalls[a] = l[i] /\ VendorCalls[b] = l[j]}

BulkCall == bulk.calls[bulk.idx]

BulkTranscript == GetTranscript(bulk.platform, BulkCall)

\* the summary returned when the loop is over
Summary(b) ==
    [kind |-> b.kind, platform |-> b.platform, calls |-> b.calls,
     total |-> Len(b.calls), processed |-> b.processed, skipped |-> b.skipped,
     errors |-> b.errors, details |-> b.details, fetches |-> b.fetches,
     writes |-> b.writes, failures |-> b.failures,
     persistedBefore |-> b.persistedBefore]

\* the for loop moves to the next call, or the sync returns its summary
NextCall(b) ==
    IF b.idx < Len(b.calls)
    THEN /\ bulk' = [b EXCEPT !.pc = "getTranscriptById", !.idx = b.idx + 1,
                              !.accountId = "", !.i = 0]
         /\ UNCHANGED bulkLog
    ELSE /\ bulk' = IdleBulk
         /\ bulkLog' = Append(bulkLog, Summary(b))

\* results.skipped++; details.push({status: 'skipped', reason: 'already_exists'}); continue
RecordSkipped(b) ==
    [b EXCEPT !.skipped = b.skipped + 1,
              !.details = Append(b.details,
                  [callId |-> b.calls[b.idx], status |-> "skipped", info |-> "already_exists"])]

\* results.processed++; details.push({status: 'success'})
RecordSuccess(b) ==
    [b EXCEPT !.processed = b.processed + 1,
              !.details = Append(b.details,
                  [callId |-> b.calls[b.idx], status |-> "success", info |-> ""])]

\* variant: the catch block records the detail and does not count the error
RecordErrorUncounted(b, message) ==
    [b EXCEPT !.details = Append(b.details,
                  [callId |-> b.calls[b.idx], status |-> "error", info |-> message])]

\* catch (error): results.errors++; details.push({status: 'error', error: message})
RecordError(b, message) ==
    [b EXCEPT !.errors = b.errors + 1,
              !.details = Append(b.details,
                  [callId |-> b.calls[b.idx], status |-> "error", info |-> message])]

\* the trigger fires (handler: platform 'gong') or the endpoint is called; the
\* listing returns
BulkStart(kind, platform, calls) ==
    /\ bulk.pc = "idle"
    /\ bulkRuns < MaxBulkRuns
    /\ kind = "handler" => platform = "gong"
    /\ bulkRuns' = bulkRuns + 1
    /\ LET b == [IdleBulk EXCEPT !.kind = kind, !.platform = platform, !.calls = calls,
                     !.persistedBefore =
                        \A i \in 1..Len(calls) :
                           \E t \in transcripts : t.id = calls[i] /\ t.platform = platform]
       IN  NextCall(b)
    /\ UNCHANGED <<dbVars, workers, delivered, svc, customRules, assocLog, runLog, extVars>>

\* what the loop takes for `existing` from getTranscriptById(call.id): the handler
\* the record, the endpoint the `data` property of the record
Existing(kind, rows) ==
    IF kind = "handler" THEN rows # {} ELSE FALSE

\* const existing = await transcriptRepo.getTranscriptById(call.id)
BulkGetTranscriptById ==
    /\ bulk.pc = "getTranscriptById"
    /\ IF Existing(bulk.kind, TranscriptsWithId(BulkCall))
       THEN NextCall(RecordSkipped(bulk))
       ELSE /\ bulk' = [bulk EXCEPT !.pc = "getTranscript"]
            /\ UNCHANGED bulkLog
    /\ UNCHANGED <<dbVars, workers, delivered, bulkRuns, svc, customRules, assocLog, runLog, extVars>>

\* transcript = await client.getTranscript(call.id); then determineAccountAssociation
\* runs up to its first store call
BulkGetTranscript ==
    /\ bulk.pc = "getTranscript"
    /\ svc.pc = "idle"
    /\ bulk' = [bulk EXCEPT !.pc = "associate", !.fetches = bulk.fetches + 1]
    /\ svc' = SvcBegin("bulk", BulkTranscript)
    /\ UNCHANGED <<dbVars, workers, delivered, bulkRuns, customRules, assocLog, runLog, bulkLog, extVars>>

\* determineAccountAssociation returned or threw inside the try block
BulkAssociated ==
    /\ bulk.pc = "associate"
    /\ svc.caller = "bulk"
    /\ svc.pc \in {"returned", "threw"}
    /\ svc' = IdleSvc
    /\ IF svc.pc = "returned"
       THEN /\ bulk' = [bulk EXCEPT !.pc = "createTranscript",
                                    !.accountId = svc.result.accountId]
            /\ UNCHANGED bulkLog
       ELSE NextCall(RecordError(bulk, svc.error))
    /\ UNCHANGED <<dbVars, workers, delivered, bulkRuns, customRules, assocLog, runLog, extVars>>

\* TranscriptRepository.createTranscript: insert into transcripts; any error throws
BulkCreateTranscript ==
    /\ bulk.pc = "createTranscript"
    /\ LET row == TranscriptRow(BulkTranscript, bulk.accountId, "webhook")
           err == TranscriptInsertError(row)
       IN  IF err # "none"
           THEN /\ NextCall(RecordError(bulk, "Failed to create transcript: " \o err))
                /\ UNCHANGED transcripts
           ELSE /\ transcripts' = transcripts \cup {row}
                /\ IF Len(BulkTranscript.segments) > 0
                   THEN /\ bulk' = [bulk EXCEPT !.pc = "deleteSegments",
                                                !.writes = bulk.writes + 1]
                        /\ UNCHANGED bulkLog
                   ELSE NextCall(RecordSuccess([bulk EXCEPT !.writes = bulk.writes + 1]))
    /\ UNCHANGED <<accounts, segments, workers, delivered, bulkRuns, svc, customRules,
                   assocLog, runLog, extVars>>

\* createTranscriptSegments: delete the existing segments of the transcript
BulkDeleteSegments ==
    /\ bulk.pc = "deleteSegments"
    /\ segments' = DeleteSegments(segments, BulkCall)
    /\ bulk' = [bulk EXCEPT !.pc = "insertSegments", !.i = 0, !.writes = bulk.writes + 1]
    /\ UNCHANGED <<accounts, transcripts, workers, delivered, bulkRuns, svc, customRules,
                   assocLog, runLog, bulkLog, extVars>>

\* createTranscriptSegments: insert the segment rows in batches
BulkInsertSegments ==
    /\ bulk.pc = "insertSegments"
    /\ LET rows == SegmentRows(BulkCall, BulkTranscript.segments)
           i == bulk.i
       IN  /\ segments' = segments \o Slice(rows, i, i + batchSize)
           /\ IF i + batchSize < Len(rows)
              THEN /\ bulk' = [bulk EXCEPT !.i = i + batchSize, !.writes = bulk.writes + 1]
                   /\ UNCHANGED bulkLog
              ELSE NextCall(RecordSuccess([bulk EXCEPT !.writes = bulk.writes + 1]))
    /\ UNCHANGED <<accounts, transcripts, workers, delivered, bulkRuns, svc, customRules,
                   assocLog, runLog, extVars>>

\* a store or vendor call of the current step fails (network error, 5xx): the
\* awaited call throws inside the try block of the loop
BulkStepFails ==
    /\ bulk.pc \in {"getTranscriptById", "getTranscript", "associate", "createTranscript",
                    "insertSegments"}
    /\ bulk.pc = "associate" =>
          svc.caller = "bulk" /\ svc.pc \in {"getAccountByDomain", "createAccount", "createFallback"}
    /\ bulk.failures < MaxFailures
    /\ svc' = IF bulk.pc = "associate" THEN IdleSvc ELSE svc
    /\ NextCall(RecordError([bulk EXCEPT !.failures = bulk.failures + 1,
                                         !.fetches = IF bulk.pc = "getTranscript"
                                                     THEN bulk.fetches + 1 ELSE bulk.fetches],
                            "request failed"))
    /\ UNCHANGED <<dbVars, workers, delivered, bulkRuns, customRules, assocLog, runLog, extVars>>

BulkStep ==
    \/ BulkGetTranscriptById
    \/ BulkGetTranscript
    \/ BulkAssociated
    \/ BulkCreateTranscript
    \/ BulkDeleteSegments
    \/ BulkInsertSegments

(***************************************************************************)
(* Manual reassociation: AccountAssociationService.reassociateTranscript   *)
(***************************************************************************)
IdleReassoc ==
    [pc |-> "idle", transcriptId |-> "", newAccountId |-> "", reason |-> "",
     userId |-> "", oldAccountId |-> ""]

Reasons == {"merged account"}
UserIds == {"user-1", ""}

\* the account ids a caller may pass: the existing accounts and one that is none
NewAccountIds == AccountIds \cup {"uuid-none"}

\* from('transcripts').update({account_id, updated_at}).eq('id', id).select().single():
\* a row must match, and account_id must reference an account
TranscriptUpdateError(transcriptId, accountId) ==
    IF ~IsUuid(accountId) THEN "22P02"
    ELSE IF accountId \notin AccountIds THEN "23503"
    ELSE IF TranscriptsWithId(transcriptId) = {} THEN "PGRST116"
    ELSE "none"

\* reassociateTranscript is called: transcript = await getTranscriptById(transcriptId);
\* throws when there is none
ReassocBegin(transcriptId, newAccountId, reason, userId) ==
    /\ reassoc.pc = "idle"
    /\ Len(reassocLog) < MaxReassociations
    /\ LET rows == TranscriptsWithId(transcriptId)
       IN  IF rows = {}
           THEN /\ reassocLog' = Append(reassocLog,
                      [transcriptId |-> transcriptId, oldAccountId |-> "",
                       newAccountId |-> newAccountId, reason |-> reason,
                       userId |-> userId, outcome |-> "threw", auditRows |-> Len(audit),
                       delivered |-> delivered])
                /\ UNCHANGED reassoc
           ELSE /\ reassoc' = [pc |-> "updateTranscript", transcriptId |-> transcriptId,
                               newAccountId |-> newAccountId, reason |-> reason,
                               userId |-> userId,
                               oldAccountId |-> (CHOOSE t \in rows : TRUE).account_id]
                /\ UNCHANGED reassocLog
    /\ UNCHANGED <<coreVars, audit, queueVars, listing, client, moreVars>>

\* await updateTranscript(transcriptId, {account_id: newAccountId}); console.log(...)
ReassocUpdate ==
    /\ reassoc.pc = "updateTranscript"
    /\ LET err == TranscriptUpdateError(reassoc.transcriptId, reassoc.newAccountId)
       IN  /\ transcripts' =
                IF err = "none"
                THEN {IF t.id = reassoc.transcriptId
                      THEN [t EXCEPT !.account_id = reassoc.newAccountId] ELSE t :
                      t \in transcripts}
                ELSE transcripts
           /\ reassocLog' = Append(reassocLog,
                 [transcriptId |-> reassoc.transcriptId, oldAccountId |-> reassoc.oldAccountId,
                  newAccountId |-> reassoc.newAccountId, reason |-> reassoc.reason,
                  userId |-> reassoc.userId,
                  outcome |-> IF err = "none" THEN "returned" ELSE "threw",
                  auditRows |-> Len(audit), delivered |-> delivered])
    /\ reassoc' = IdleReassoc
    /\ UNCHANGED <<accounts, segments, workers, delivered, bulk, bulkRuns, svc, customRules,
                   assocLog, runLog, bulkLog, audit, queueVars, listing, client, moreVars>>

(***************************************************************************)
(* Vendor failures seen by an adapter call, and the error the adapter      *)
(* throws for them (handleApiError).                                       *)
(***************************************************************************)
Failures == {"401", "429", "500"}

handleApiError(platform, status) ==
    IF platform = "gong"
    THEN CASE status = "401" -> "Gong authentication failed. Token may have expired."
           [] status = "429" -> "Gong API rate limit exceeded. Please try again later."
           [] OTHER          -> "Gong API error: " \o status
    ELSE CASE status = "401" -> "Fireflies authentication failed. Check API key."
           [] status = "429" -> "Fireflies API rate limit exceeded."
           [] OTHER          -> "Fireflies API error: " \o status

(***************************************************************************)
(* The transport: transcriptQueue with its dead-letter queue, and the      *)
(* event source that invokes the handler of lambdas/transcriptProcessor.ts *)
(* with a batch of records.                                                *)
(***************************************************************************)
MsgIds == {"m1", "m2"}

maxReceiveCount == 3

\* the calls the webhooks announce
QueuedCalls == {<<"gong", "c1">>, <<"gong", "c3">>}

UnsentMessage == [state |-> "unsent", receives |-> 0, platform |-> "", callId |-> ""]

IdleInvocation == [pc |-> "idle", records |-> <<>>, base |-> 0]

\* a webhook sends {platform, callId} to the queue
SendMessage(m, platform, callId) ==
    /\ queue[m].state = "unsent"
    /\ queue' = [queue EXCEPT ![m] = [state |-> "visible", receives |-> 0,
                                      platform |-> platform, callId |-> callId]]
    /\ UNCHANGED <<coreVars, auditVars, invocation, invLog, listing, client, moreVars>>

\* redrive policy: a message received maxReceiveCount times is not delivered
\* again: it is moved to the dead-letter queue
Redrive(m) ==
    /\ queue[m].state = "visible"
    /\ queue[m].receives >= maxReceiveCount
    /\ queue' = [queue EXCEPT ![m].state = "dlq"]
    /\ UNCHANGED <<coreVars, auditVars, invocation, invLog, listing, client, moreVars>>

\* the assignments of the messages of a batch to the records of the event
Batches ==
    {b \in [Workers -> MsgIds \cup {"-"}] :
        /\ b["w1"] # "-"
        /\ \A w, v \in Workers : (w # v /\ b[w] # "-") => b[w] # b[v]}

\* the event source receives a batch and invokes the handler:
\* event.Records.map(record => processTranscriptRecord(record))
Invoke(batch) ==
    /\ invocation.pc = "idle"
    /\ Len(invLog) < MaxInvocations
    /\ \A w \in Workers : workers[w].pc = "idle"
    /\ \A w \in Workers : batch[w] # "-" =>
          /\ queue[batch[w]].state = "visible"
          /\ queue[batch[w]].receives < maxReceiveCount
    /\ queue' = [m \in MsgIds |->
                    IF \E w \in Workers : batch[w] = m
                    THEN [queue[m] EXCEPT !.state = "inflight", !.receives = @ + 1]
                    ELSE queue[m]]
    /\ workers' = [w \in Workers |->
                    IF batch[w] = "-" THEN IdleWorker
                    ELSE [IdleWorker EXCEPT !.pc = "getTranscript",
                                            !.platform = queue[batch[w]].platform,
                                            !.callId = queue[batch[w]].callId,
                                            !.startedAfter = Len(runLog)]]
    /\ delivered' = delivered + Cardinality({w \in Workers : batch[w] # "-"})
    /\ invocation' = [pc |-> "running", records |-> batch, base |-> Len(runLog)]
    /\ UNCHANGED <<dbVars, bulk, bulkRuns, svc, customRules, assocLog, runLog, bulkLog,
                   auditVars, invLog, listing, client, moreVars>>

\* await client.authenticate() or await client.getTranscript(callId) throws:
\* processTranscriptRecord logs and re-throws
WorkerAdapterFails(w, status) ==
    /\ workers[w].pc = "getTranscript"
    /\ Cardinality({i \in 1..Len(runLog) : runLog[i].outcome = "rejected"}) < MaxRejections
    /\ WorkerSettled(w, "rejected", handleApiError(workers[w].platform, status))
    /\ UNCHANGED <<dbVars, delivered, bulk, bulkRuns, svc, customRules, assocLog, bulkLog,
                   extVars>>

\* the outcome of the record of message m in Promise.allSettled's results
SettledAs(m) ==
    LET w == CHOOSE v \in Workers : invocation.records[v] = m
        i == CHOOSE j \in (invocation.base + 1)..Len(runLog) : runLog[j].worker = w
    IN  runLog[i].outcome

BatchMessages == {invocation.records[w] : w \in Workers} \ {"-"}

\* results = await Promise.allSettled(...): every record has settled; the handler
\* counts and logs the failures and returns.  The invocation succeeded, so the
\* event source deletes the messages of the batch from the queue.
HandlerReturns ==
    /\ invocation.pc = "running"
    /\ \A w \in Workers : workers[w].pc = "idle"
    /\ invLog' = Append(invLog,
          [outcome |-> "succeeded",
           results |-> [m \in BatchMessages |-> SettledAs(m)]])
    /\ queue' = [m \in MsgIds |->
                    IF m \in BatchMessages THEN [queue[m] EXCEPT !.state = "deleted"]
                    ELSE queue[m]]
    /\ invocation' = IdleInvocation
    /\ UNCHANGED <<coreVars, auditVars, listing, client, moreVars>>

\* the runtime ends the invocation before the handler returns (timeout: 10
\* minutes): the invocation failed, the messages of the batch become visible again
InvocationAborts ==
    /\ invocation.pc = "running"
    /\ \E w \in Workers : workers[w].pc # "idle"
    /\ invLog' = Append(invLog,
          [outcome |-> "failed",
           results |-> [m \in BatchMessages |->
                           IF \E j \in (invocation.base + 1)..Len(runLog) :
                                 invocation.records[runLog[j].worker] = m
                           THEN SettledAs(m) ELSE "pending"]])
    /\ queue' = [m \in MsgIds |->
                    IF m \in BatchMessages THEN [queue[m] EXCEPT !.state = "visible"]
                    ELSE queue[m]]
    /\ workers' = [w \in Workers |-> IdleWorker]
    /\ invocation' = IdleInvocation
    /\ UNCHANGED <<dbVars, delivered, bulk, bulkRuns, svc, customRules, assocLog, runLog,
                   bulkLog, auditVars, listing, client, moreVars>>

\* transcript = await client.getTranscript(call.id) fails with a vendor error: the
\* adapter throws the error of handleApiError, caught by the catch block of the loop
BulkAdapterFails(status) ==
    /\ bulk.pc = "getTranscript"
    /\ bulk.failures < MaxFailures
    /\ NextCall(RecordError([bulk EXCEPT !.failures = bulk.failures + 1,
                                         !.fetches = bulk.fetches + 1],
                            handleApiError(bulk.platform, status)))
    /\ UNCHANGED <<dbVars, workers, delivered, bulkRuns, svc, customRules, assocLog, runLog,
                   extVars>>

(***************************************************************************)
(* listCalls of the adapters (GongClient, ClariClient, FirefliesClient)    *)
(* against a vendor that serves its result sequence in pages.  The calls   *)
(* of the vendor are numbered 1..size in vendor order.                     *)
(***************************************************************************)
Adapters == {"gong", "clari", "fireflies"}

defaultLimit == 100
gongPageSize == 100
clariPageSize == 100
firefliesPageSize == 50
clariDelay == 100
firefliesDelay == 1200

Min(a, b) == IF a <= b THEN a ELSE b

IdleListing ==
    [pc |-> "idle", adapter |-> "", limit |-> 0, size |-> 0, vendorPage |-> 0,
     calls |-> <<>>, position |-> 0, more |-> TRUE, requests |-> 0, faults |-> 0,
     overfetched |-> FALSE, result |-> <<>>, gaps |-> <<>>, inflight |-> 0]

\* options.limit || 100
LimitOrDefault(limit) == IF limit = 0 THEN defaultLimit ELSE limit

\* the `limit` parameter of the next page request
RequestSize(l) ==
    CASE l.adapter = "gong" ->
            Min(LimitOrDefault(l.limit) - Len(l.calls), gongPageSize)
      [] l.adapter = "clari" ->
            Min(LimitOrDefault(l.limit), clariPageSize)
      [] OTHER ->
            Min(firefliesPageSize, LimitOrDefault(l.limit) - Len(l.calls))

\* the page the vendor serves from a position: at most the requested number of
\* calls and at most its own page size
VendorPage(l) ==
    LET last == Min(l.size, l.position + Min(RequestSize(l), l.vendorPage))
    IN  [calls |-> [i \in 1..(IF last > l.position THEN last - l.position ELSE 0) |->
                       l.position + i],
         more  |-> last < l.size /\ l.position < l.size,
         next  |-> IF last > l.position THEN last ELSE l.position]

\* calls.slice(0, n)
Take(calls, n) == SubSeq(calls, 1, Min(n, Len(calls)))

\* the value listCalls returns
ListResult(l, calls) ==
    CASE l.adapter = "gong"  -> calls
      [] l.adapter = "clari" -> Take(calls, l.limit)
      [] OTHER               -> Take(calls, LimitOrDefault(l.limit))

\* whether the loop of listCalls ends after a page
LoopEnds(l, calls, more) ==
    CASE l.adapter = "gong"  -> Len(calls) >= LimitOrDefault(l.limit) \/ ~more
      [] l.adapter = "clari" -> ~more \/ (l.limit # 0 /\ Len(calls) >= l.limit)
      [] OTHER               -> ~more \/ Len(calls) >= LimitOrDefault(l.limit)

\* the milliseconds an adapter waits after a page before it requests the next:
\* Clari await this.delay(100), Fireflies await this.delay(1200), Gong nothing
PageDelay(adapter) ==
    CASE adapter = "clari"     -> clariDelay
      [] adapter = "fireflies" -> firefliesDelay
      [] OTHER                 -> 0

\* variant: the loop issues the next page request and the one after it together
NextRequestAhead(l) ==
    [l EXCEPT !.inflight = @ + 2, !.gaps = Append(@, PageDelay(l.adapter))]

\* the loop goes on: the adapter waits its delay and issues the next page request
NextRequest(l) ==
    [l EXCEPT !.inflight = @ + 1, !.gaps = Append(@, PageDelay(l.adapter))]

\* listCalls({startDate, endDate, limit}) is called and issues its first page
\* request
ListStart(adapter, limit, size, vendorPage) ==
    /\ listing.pc = "idle"
    /\ listing' = [IdleListing EXCEPT !.pc = "request", !.adapter = adapter,
                                      !.limit = limit, !.size = size,
                                      !.vendorPage = vendorPage, !.inflight = 1]
    /\ UNCHANGED <<coreVars, auditVars, queueVars, client, moreVars>>

\* one page request is answered with a page: calls.push(...mappedCalls), the
\* cursor (Clari: offset += limit) moves, and the loop ends or goes on
ListPage ==
    /\ listing.pc = "request"
    /\ LET page == VendorPage(listing)
           calls == listing.calls \o page.calls
           over == \/ (listing.limit # 0 /\ Len(listing.calls) >= listing.limit)
                   \/ ~listing.more
           l == [listing EXCEPT
                    !.calls = calls,
                    !.more = page.more,
                    !.requests = @ + 1,
                    !.inflight = @ - 1,
                    !.overfetched = @ \/ over,
                    !.position = IF listing.adapter = "clari"
                                 THEN listing.position + RequestSize(listing)
                                 ELSE page.next]
       IN  listing' = IF LoopEnds(listing, calls, page.more)
                      THEN [l EXCEPT !.pc = "returned",
                                     !.result = ListResult(listing, calls)]
                      ELSE NextRequest(l)
    /\ UNCHANGED <<coreVars, auditVars, queueVars, client, moreVars>>

\* one page request fails: "error" is a request error (network, 4xx, 5xx),
\* "nolist" a response that carries no call list
ListPageFails(fault) ==
    /\ listing.pc = "request"
    /\ LET l == [listing EXCEPT !.requests = @ + 1, !.faults = @ + 1,
                                 !.inflight = @ - 1]
       IN  listing' =
              IF fault = "nolist" /\ listing.adapter \in {"gong", "fireflies"}
              THEN [l EXCEPT !.pc = "returned",
                             !.result = ListResult(listing, listing.calls)]
              ELSE [l EXCEPT !.pc = "threw"]
    /\ UNCHANGED <<coreVars, auditVars, queueVars, client, moreVars>>

(***************************************************************************)
(* authenticate of the adapters.  PlatformCredentials are records of       *)
(* apiKey, clientId and clientSecret, "" standing for an absent field.     *)
(***************************************************************************)
Creds(apiKey, clientId, clientSecret) ==
    [apiKey |-> apiKey, clientId |-> clientId, clientSecret |-> clientSecret]

NoCredentials == Creds("", "", "")

Credentials ==
    {Creds("k1", "", "s1"), Creds("k2", "", "s2"), Creds("k2", "", ""),
     Creds("", "id1", "s1"), Creds("", "id2", "s2"), NoCredentials}

\* the adapter object after its constructor
NewClient(adapter) ==
    [adapter |-> adapter, credentials |-> NoCredentials, authMethod |-> "",
     accessToken |-> "", tokenValid |-> FALSE, authorization |-> "",
     orgPassword |-> "", outcome |-> "none", vendorFailed |-> FALSE, calls |-> 0,
     pc |-> "idle", sent |-> <<>>]

NoClient == NewClient("")

\* the access token the vendor issues to an OAuth client
IssuedToken(credentials) == "token-" \o credentials.clientId

\* Buffer.from(text).toString('base64'): an injective encoding, kept symbolic
Base64(text) == "base64(" \o text \o ")"

\* GongClient.setupBasicAuth
setupBasicAuth(c) ==
    [c EXCEPT !.authorization =
         "Basic " \o Base64(c.credentials.apiKey \o ":" \o c.credentials.clientSecret)]

\* GongClient.getAccessToken; vendorOk: the token request succeeds
getAccessToken(c, vendorOk) ==
    IF c.accessToken # "" /\ c.tokenValid
    THEN c
    ELSE IF vendorOk
         THEN [c EXCEPT !.accessToken = IssuedToken(c.credentials),
                        !.tokenValid = TRUE,
                        !.authorization = "Bearer " \o IssuedToken(c.credentials)]
         ELSE [c EXCEPT !.outcome = "threw", !.vendorFailed = TRUE]

GongAuthenticate(c, vendorOk) ==
    LET k == c.credentials
    IN  CASE k.apiKey # "" /\ k.clientSecret # "" /\ k.clientId = "" ->
                setupBasicAuth([c EXCEPT !.authMethod = "basic"])
          [] k.clientId # "" /\ k.clientSecret # "" /\ k.apiKey = "" ->
                getAccessToken([c EXCEPT !.authMethod = "oauth"], vendorOk)
          [] OTHER -> [c EXCEPT !.outcome = "threw"]

ClariAuthenticate(c) ==
    IF c.credentials.apiKey = ""
    THEN [c EXCEPT !.outcome = "threw"]
    ELSE [c EXCEPT !.authorization = "Bearer " \o c.credentials.apiKey,
                   !.orgPassword = IF c.credentials.clientSecret # ""
                                   THEN c.credentials.clientSecret
                                   ELSE @]

FirefliesAuthenticate(c) ==
    IF c.credentials.apiKey = ""
    THEN [c EXCEPT !.outcome = "threw"]
    ELSE [c EXCEPT !.authorization = "Bearer " \o c.credentials.apiKey]

\* new GongClient(...) / new ClariClient(...) / new FirefliesClient(...)
Construct(adapter) ==
    /\ client = NoClient
    /\ client' = NewClient(adapter)
    /\ UNCHANGED <<coreVars, auditVars, queueVars, listing, moreVars>>

\* authenticate(credentials) on the adapter object
Authenticate(credentials, vendorOk) ==
    /\ client.adapter # ""
    /\ client.calls < MaxAuthCalls
    /\ LET c == [client EXCEPT !.credentials = credentials, !.outcome = "ok",
                               !.vendorFailed = FALSE, !.calls = @ + 1]
       IN  client' = CASE client.adapter = "gong"  -> GongAuthenticate(c, vendorOk)
                       [] client.adapter = "clari" -> ClariAuthenticate(c)
                       [] OTHER                    -> FirefliesAuthenticate(c)
    /\ UNCHANGED <<coreVars, auditVars, queueVars, listing, moreVars>>

\* time passes beyond tokenExpiry
TokenExpires ==
    /\ client.tokenValid
    /\ client' = [client EXCEPT !.tokenValid = FALSE]
    /\ UNCHANGED <<coreVars, auditVars, queueVars, listing, moreVars>>

(***************************************************************************)
(* The webhook endpoints: lambdas/gongWebhook.ts, firefliesWebhook.ts and  *)
(* the Clari webhook handler.  A request body is text; JSON.parse is       *)
(* computed on the JSON values the requests carry: null, numbers and flat  *)
(* objects of string members.                                              *)
(***************************************************************************)
Undefined == "<undefined>"

\* index of the first occurrence of sub in s at or after from, 0 if none
RECURSIVE IndexOf(_, _, _)
IndexOf(s, sub, from) ==
    IF from + Len(sub) - 1 > Len(s) THEN 0
    ELSE IF SubSeq(s, from, from + Len(sub) - 1) = sub THEN from
    ELSE IndexOf(s, sub, from + 1)

Digits == {"0", "1", "2", "3", "4", "5", "6", "7", "8", "9"}

\* the kind of value JSON.parse(text) returns, "SyntaxError" when it throws
JsonKind(text) ==
    IF text = "null" THEN "null"
    ELSE IF Len(text) > 0 /\ \A i \in 1..Len(text) : SubSeq(text, i, i) \in Digits
    THEN "number"
    ELSE IF Len(text) >= 2 /\ SubSeq(text, 1, 1) = "{" /\ SubSeq(text, Len(text), Len(text)) = "}"
    THEN "object"
    ELSE "SyntaxError"

\* JSON.parse(text)[key] for an object text: the string member, or undefined
JsonMember(text, key) ==
    LET opening == "\"" \o key \o "\":\""
        at == IndexOf(text, opening, 1)
    IN  IF at = 0 THEN Undefined
        ELSE LET from == at + Len(opening)
                 to == IndexOfChar(text, "\"", from)
             IN  SubSeq(text, from, to - 1)

\* !value for a string member or undefined
Falsy(value) == value = Undefined \/ value = ""

HookPlatforms == {"gong", "fireflies", "clari"}

\* the member names of the payload a handler reads
EventKey(platform) == IF platform = "gong" THEN "eventType" ELSE "event"
IdKey(platform) == IF platform = "fireflies" THEN "transcriptId" ELSE "callId"

\* the events a handler processes
CompleteEvents(platform) ==
    CASE platform = "gong"      -> {"CALL_PROCESSING_COMPLETED"}
      [] platform = "fireflies" -> {"transcription_complete"}
      [] OTHER                  -> {"call.completed", "call.transcribed"}

\* `${platform}-${callId}-${Date.now()}`
DeduplicationId(platform, callId, now) ==
    platform \o "-" \o callId \o "-" \o ToString(now)

NoHooks == [clock |-> 0, log |-> <<>>, sends |-> <<>>, accepted |-> <<>>]

\* what becomes of the send: the queue accepts the message, sqsClient.send
\* rejects, or TRANSCRIPT_QUEUE_URL is not set
SendOutcomes == {"accepted", "failed", "no-url"}

\* an answer that sends nothing to the queue
Answer(status, message) == [status |-> status, message |-> message, sent |-> <<>>]

\* variant: a failure of the send is logged and the handler answers as if the
\* message had been queued
SendToQueueSwallowed(send, message) ==
    [status |-> 200, message |-> "Webhook processed successfully",
     sent |-> IF send = "accepted" THEN <<message>> ELSE <<>>]

\* the queue URL is read, the message is sent, and the handler answers 200; a
\* missing URL or a failed send throws, and the catch block answers 500 with the
\* message of the error as details
SendToQueue(send, message) ==
    CASE send = "accepted" ->
            [status |-> 200, message |-> "Webhook processed successfully",
             sent |-> <<message>>]
      [] send = "no-url" ->
            Answer(500, "Internal server error: TRANSCRIPT_QUEUE_URL environment variable not set")
      [] OTHER ->
            Answer(500, "Internal server error: send failed")

\* the handler answers one request.  signature: the outcome of the signature
\* block of the Gong handler ("skipped" without secret or header); send: what
\* becomes of the send.  Value: the status code, the text of the answer, and the
\* message sent if any
HookResponse(platform, method, body, signature, send, now) ==
    LET event == JsonMember(body, EventKey(platform))
        id == JsonMember(body, IdKey(platform))
    IN  IF method # "POST" THEN Answer(405, "Method not allowed")
        ELSE IF body = "" THEN Answer(400, "Missing request body")
        ELSE IF JsonKind(body) = "SyntaxError" THEN Answer(400, "Invalid JSON payload")
        ELSE IF JsonKind(body) = "null" THEN Answer(500, "Internal server error: TypeError")
        ELSE IF JsonKind(body) = "number" THEN Answer(400, "Missing required fields")
        ELSE IF Falsy(event) \/ Falsy(id) THEN Answer(400, "Missing required fields")
        ELSE IF event \notin CompleteEvents(platform) THEN Answer(200, "Event type ignored")
        ELSE IF platform = "gong" /\ signature = "failed" THEN Answer(401, "Invalid signature")
        ELSE SendToQueue(send, [platform |-> platform, callId |-> id, eventType |-> event,
                                  dedupId |-> DeduplicationId(platform, id, now)])

\* the transport keeps a sent message unless it accepted one with the same
\* deduplication id within its deduplication window
Accept(accepted, sent) ==
    accepted \o SelectSeq(sent, LAMBDA m :
                     \A i \in 1..Len(accepted) : accepted[i].dedupId # m.dedupId)

\* crypto.createHmac('sha256', secret).update(body).digest('hex'), kept symbolic
Hmac(secret, body) == "hmac(" \o secret \o "," \o body \o ")"

\* signature.replace('sha256=', '') for a header that carries the prefix at most
\* at its start
StripPrefix(header) ==
    IF Len(header) >= 7 /\ SubSeq(header, 1, 7) = "sha256="
    THEN SubSeq(header, 8, Len(header)) ELSE header

\* the signature check of the Gong handler: it runs when GONG_WEBHOOK_SECRET is
\* set and the request has an x-gong-signature header
VerifySignature(secret, header, body) ==
    IF secret # "" /\ header # ""
    THEN IF StripPrefix(header) = Hmac(secret, body) THEN "passed" ELSE "failed"
    ELSE "skipped"

\* a vendor (or anyone) calls a webhook endpoint; secret is GONG_WEBHOOK_SECRET
\* of the deployment, header the x-gong-signature header of the request
WebhookRequest(platform, method, body, secret, header, send) ==
    /\ Len(hooks.log) < MaxWebhooks
    /\ platform # "gong" => secret = "" /\ header = ""
    /\ LET signature == IF platform = "gong" THEN VerifySignature(secret, header, body)
                                             ELSE "skipped"
           r == HookResponse(platform, method, body, signature, send, hooks.clock)
       IN  hooks' = [hooks EXCEPT
                        !.log = Append(@, [platform |-> platform, method |-> method,
                                           body |-> body, status |-> r.status,
                                           secret |-> secret, header |-> header,
                                           send |-> send, message |-> r.message,
                                           enqueued |-> Len(r.sent) > 0]),
                        !.sends = @ \o r.sent,
                        !.accepted = Accept(@, r.sent)]
    /\ UNCHANGED <<coreVars, auditVars, queueVars, listing, client, factory, revision, legacy>>

\* a millisecond passes: Date.now() moves on
Tick ==
    /\ hooks.clock < MaxClock
    /\ hooks' = [hooks EXCEPT !.clock = @ + 1]
    /\ UNCHANGED <<coreVars, auditVars, queueVars, listing, client, factory, revision, legacy>>

(***************************************************************************)
(* PlatformFactory: the cache of adapter instances.                        *)
(***************************************************************************)
NewFactory == [instances |-> {}, constructed |-> 0, clears |-> 0, log |-> <<>>]

SupportedPlatforms == {"gong", "clari", "fireflies"}

\* const key = `${platform}-${secretName}`
CacheKey(platform, secretName) == platform \o "-" \o secretName

\* this.instances.get(key): the entries of the key (none or one)
Cached(key) == {e \in factory.instances : e.key = key}

\* PlatformFactory.createClient(platform, secretName)
CreateClient(platform, secretName) ==
    /\ Len(factory.log) < MaxFactoryCalls
    /\ LET key == CacheKey(platform, secretName)
           call == [op |-> "createClient", platform |-> platform,
                    secretName |-> secretName, epoch |-> factory.clears,
                    before |-> factory.instances]
       IN  IF Cached(key) # {}
           THEN factory' = [factory EXCEPT !.log = Append(@, call @@
                               [outcome |-> "returned",
                                instance |-> (CHOOSE e \in Cached(key) : TRUE).instance,
                                after |-> factory.instances])]
           ELSE IF platform \in SupportedPlatforms
           THEN LET instance == [id |-> factory.constructed + 1, class |-> platform,
                                 secretName |-> secretName]
                    instances == factory.instances \cup {[key |-> key, instance |-> instance]}
                IN  factory' = [factory EXCEPT
                                   !.instances = instances,
                                   !.constructed = @ + 1,
                                   !.log = Append(@, call @@
                                              [outcome |-> "returned", instance |-> instance,
                                               after |-> instances])]
           ELSE factory' = [factory EXCEPT !.log = Append(@, call @@
                               [outcome |-> "threw",
                                instance |-> [id |-> 0, class |-> "", secretName |-> ""],
                                after |-> factory.instances])]
    /\ UNCHANGED <<coreVars, auditVars, queueVars, listing, client, hooks, revision, legacy>>

\* PlatformFactory.clearCache()
ClearCache ==
    /\ Len(factory.log) < MaxFactoryCalls
    /\ factory' = [factory EXCEPT
                      !.instances = {},
                      !.clears = @ + 1,
                      !.log = Append(@, [op |-> "clearCache", platform |-> "",
                                         secretName |-> "", epoch |-> factory.clears,
                                         before |-> factory.instances,
                                         outcome |-> "returned",
                                         instance |-> [id |-> 0, class |-> "", secretName |-> ""],
                                         after |-> {}])]
    /\ UNCHANGED <<coreVars, auditVars, queueVars, listing, client, hooks, revision, legacy>>

(***************************************************************************)
(* The vendor re-transcribes its calls.  A sync works on the transcript it *)
(* fetched, so the revision moves only while no sync is running.           *)
(***************************************************************************)
Revise ==
    /\ revision < MaxRevisions
    /\ \A w \in Workers : workers[w].pc = "idle"
    /\ bulk.pc = "idle"
    /\ revision' = revision + 1
    /\ UNCHANGED <<coreVars, auditVars, queueVars, listing, client, hooks, factory, legacy>>

(***************************************************************************)
(* The API calls of a GongClient that authenticated with OAuth: listCalls, *)
(* getTranscript, getAIContent and testConnection.  client.sent is the     *)
(* history of the requests: the operation, whether the token was past its  *)
(* recorded expiry when the request was sent, and the status it met.       *)
(***************************************************************************)
ApiOps == {"listCalls", "getTranscript", "getAIContent", "testConnection"}

\* GongClient.ensureAuthenticated
ensureAuthenticated(c, vendorOk) ==
    IF c.authMethod = "oauth" THEN getAccessToken(c, vendorOk) ELSE c

\* handleApiError on a 401: this.accessToken = undefined; this.tokenExpiry = undefined
DiscardToken(c) == [c EXCEPT !.accessToken = "", !.tokenValid = FALSE]

\* a request goes out with the Authorization header as it is and is answered;
\* listCalls, getTranscript and getAIContent pass the error to handleApiError,
\* testConnection logs it and returns false; more: listCalls got a cursor and
\* has not gathered limit calls
Request(c, op, status, more) ==
    LET d == [c EXCEPT !.sent = Append(@, [op |-> op, expired |-> ~c.tokenValid,
                                           status |-> status])]
    IN  CASE status = "200" ->
                [d EXCEPT !.pc = IF op = "listCalls" /\ more THEN "paging" ELSE "idle"]
          [] op = "testConnection" ->
                [d EXCEPT !.pc = "idle", !.outcome = "false"]
          [] status = "401" ->
                [DiscardToken(d) EXCEPT !.pc = "idle", !.outcome = "threw"]
          [] OTHER ->
                [d EXCEPT !.pc = "idle", !.outcome = "threw"]

\* one of the four operations is called: await this.ensureAuthenticated(), then
\* its first request
ApiCall(op, vendorOk, status, more) ==
    /\ client.adapter = "gong"
    /\ client.authMethod = "oauth"
    /\ client.pc = "idle"
    /\ Len(client.sent) < MaxApiRequests
    /\ LET c == ensureAuthenticated([client EXCEPT !.outcome = "ok", !.vendorFailed = FALSE],
                                    vendorOk)
       IN  client' = IF c.outcome = "threw"
                     THEN (IF op = "testConnection" THEN [c EXCEPT !.outcome = "false"] ELSE c)
                     ELSE Request(c, op, status, more)
    /\ UNCHANGED <<coreVars, auditVars, queueVars, listing, moreVars>>

\* the do/while loop of listCalls requests the next page
ApiNextPage(status, more) ==
    /\ client.pc = "paging"
    /\ client' = IF Len(client.sent) < MaxApiRequests
                 THEN Request(client, "listCalls", status, more)
                 ELSE [client EXCEPT !.pc = "idle"]
    /\ UNCHANGED <<coreVars, auditVars, queueVars, listing, moreVars>>

(***************************************************************************)
(* The legacy Fireflies SyncService: services/sync.ts, with the api_usage  *)
(* table of its database.  usage is what getApiUsageToday returns, the     *)
(* rows of today with success = 1; requests counts the requests issued     *)
(* today.  maxRequestsPerDay is MAX_REQUESTS_PER_DAY of the deployment.    *)
(***************************************************************************)
maxRequestsPerDay == 2

NewLegacy ==
    [pc |-> "idle", seen |-> 0, batches |-> 0, usage |-> 0, requests |-> 0,
     skipped |-> 0, day |-> 0]

\* while (hasMore && apiUsageToday < config.fireflies.maxRequestsPerDay), with
\* apiUsageToday the constant read when the sync began
LoopGoesOn(l, hasMore) == hasMore /\ l.seen < maxRequestsPerDay

\* syncAllTranscripts is called: apiUsageToday = await getApiUsageToday(); the
\* vendor has `batches` full batches, then a short one
SyncAllStart(batches) ==
    /\ legacy.pc = "idle"
    /\ legacy' = IF legacy.usage >= maxRequestsPerDay
                 THEN [legacy EXCEPT !.skipped = 1]
                 ELSE LET l == [legacy EXCEPT !.seen = legacy.usage, !.batches = batches,
                                              !.skipped = 0]
                      IN  IF LoopGoesOn(l, TRUE) THEN [l EXCEPT !.pc = "batch"] ELSE l
    /\ UNCHANGED <<coreVars, auditVars, queueVars, listing, client, hooks, factory, revision>>

\* one round of the loop: getTranscripts(batchSize, skip), logApiUsage, the
\* transcripts are processed, hasMore = transcripts.length === batchSize; a
\* failed request is logged with success = 0 and ends the loop
SyncAllBatch(ok) ==
    /\ legacy.pc = "batch"
    /\ legacy.requests < MaxLegacyRequests
    /\ LET l == [legacy EXCEPT !.requests = @ + 1,
                               !.usage = IF ok THEN @ + 1 ELSE @,
                               !.batches = IF @ > 0 THEN @ - 1 ELSE 0]
       IN  legacy' = IF ok /\ LoopGoesOn(l, legacy.batches > 0)
                     THEN l ELSE [l EXCEPT !.pc = "idle"]
    /\ UNCHANGED <<coreVars, auditVars, queueVars, listing, client, hooks, factory, revision>>

\* syncRecentTranscripts: the usage check, then one getRecentTranscripts request
SyncRecent(ok) ==
    /\ legacy.pc = "idle"
    /\ legacy.requests < MaxLegacyRequests
    /\ legacy' = IF legacy.usage >= maxRequestsPerDay
                 THEN [legacy EXCEPT !.skipped = 1]
                 ELSE [legacy EXCEPT !.requests = @ + 1, !.skipped = 0,
                                     !.usage = IF ok THEN @ + 1 ELSE @]
    /\ UNCHANGED <<coreVars, auditVars, queueVars, listing, client, hooks, factory, revision>>

\* midnight: date("now") moves on and the rows of the day before no longer count
NewDay ==
    /\ legacy.pc = "idle"
    /\ legacy.day = 0
    /\ legacy' = [legacy EXCEPT !.day = 1, !.usage = 0, !.requests = 0, !.skipped = 0]
    /\ UNCHANGED <<coreVars, auditVars, queueVars, listing, client, hooks, factory, revision>>

(***************************************************************************)
(* Specifications.                                                         *)
(***************************************************************************)
Init ==
    /\ revision = 0
    /\ accounts = {}
    /\ transcripts = {}
    /\ segments = <<>>
    /\ workers = [w \in Workers |-> IdleWorker]
    /\ delivered = 0
    /\ bulk = IdleBulk
    /\ bulkRuns = 0
    /\ svc = IdleSvc
    /\ customRules = <<>>
    /\ assocLog = <<>>
    /\ runLog = <<>>
    /\ bulkLog = <<>>
    /\ audit = <<>>
    /\ reassoc = IdleReassoc
    /\ reassocLog = <<>>
    /\ queue = [m \in MsgIds |-> UnsentMessage]
    /\ invocation = IdleInvocation
    /\ invLog = <<>>
    /\ listing = IdleListing
    /\ client = NoClient
    /\ hooks = NoHooks
    /\ factory = NewFactory
    /\ legacy = NewLegacy

\* the queue consumers: concurrent single-call syncs
Next ==
    \E w \in Workers : Deliver(w) \/ WorkerStep(w)

Spec == Init /\ [][Next]_vars

\* bulk syncs of one window run one after another by one trigger (the schedule,
\* or the sync endpoint for one platform) while the vendor adds no call, each
\* with the fresh, rule-free service it constructs
NextBulk ==
    \/ \E kind \in {"handler", "api"}, platform \in Platforms, calls \in Listings :
          /\ bulkLog # <<>> => /\ kind = bulkLog[1].kind
                               /\ platform = bulkLog[1].platform
                               /\ calls = bulkLog[1].calls
          /\ BulkStart(kind, platform, calls)
    \/ BulkStep
    \/ SvcStep
    \/ BulkStepFails

SpecBulk == Init /\ [][NextBulk]_vars

\* one bulk sync with a queue consumer running beside it
NextRace ==
    \/ \E kind \in {"handler", "api"}, platform \in Platforms, calls \in Listings :
          bulkRuns < 1 /\ BulkStart(kind, platform, calls)
    \/ BulkStep
    \/ SvcStep
    \/ BulkStepFails
    \/ (delivered < MaxRaceDeliveries /\ Deliver("w1"))
    \/ WorkerStep("w1")

SpecRace == Init /\ [][NextRace]_vars

\* association calls run one after another, by the service and by the queue
\* consumer
NextAssoc ==
    \/ \E t \in VendorTranscripts : workers["w1"].pc = "idle" /\ DirectCall(t)
    \/ SvcStep
    \/ DirectReturn
    \/ (svc.pc = "idle" /\ Len(assocLog) < MaxDirectCalls /\ Deliver("w1"))
    \/ WorkerStep("w1")

SpecAssoc == Init /\ [][NextAssoc]_vars

\* the service answers association calls while its custom rules are edited
NextRules ==
    \/ \E t \in VendorTranscripts : Len(assocLog) < MaxRuleCalls /\ DirectCall(t)
    \/ SvcStep
    \/ DirectReturn
    \/ \E rule \in RuleInputs : addCustomRule(rule)
    \/ \E rule \in RuleInputs : removeCustomRule(rule.id)

SpecRules == Init /\ [][NextRules]_vars

\* calls are ingested by a queue consumer and reassociated by hand
NextReassoc ==
    \/ Deliver("w1")
    \/ WorkerStep("w1")
    \/ \E transcriptId \in CallIds, newAccountId \in NewAccountIds,
          reason \in Reasons, userId \in UserIds :
          ReassocBegin(transcriptId, newAccountId, reason, userId)
    \/ ReassocUpdate

SpecReassoc == Init /\ [][NextReassoc]_vars

\* the queue consumer behind its transport
NextQueue ==
    \/ \E m \in MsgIds, body \in QueuedCalls : SendMessage(m, body[1], body[2])
    \/ \E batch \in Batches : Invoke(batch)
    \/ \E w \in Workers : WorkerStep(w)
    \/ \E w \in Workers, status \in Failures : WorkerAdapterFails(w, status)
    \/ HandlerReturns
    \/ InvocationAborts
    \/ \E m \in MsgIds : Redrive(m)

SpecQueue == Init /\ [][NextQueue]_vars

\* one bulk sync whose transcript fetches may fail with a vendor error
NextRetry ==
    \/ \E kind \in {"handler", "api"}, platform \in Platforms, calls \in Listings :
          bulkRuns < 1 /\ BulkStart(kind, platform, calls)
    \/ BulkStep
    \/ SvcStep
    \/ \E status \in Failures : BulkAdapterFails(status)

SpecRetry == Init /\ [][NextRetry]_vars

ListedSizes == 0..MaxListed \cup {BigListed}
Limits == 0..MaxLimit \cup {BigLimit}
VendorPages == 1..MaxVendorPage \cup {gongPageSize}

\* one listCalls call against a vendor
NextList ==
    \/ \E adapter \in Adapters, limit \in Limits, size \in ListedSizes,
          vendorPage \in VendorPages :
          ListStart(adapter, limit, size, vendorPage)
    \/ ListPage
    \/ \E fault \in {"error", "nolist"} : ListPageFails(fault)

SpecList == Init /\ [][NextList]_vars

\* authenticate calls on one adapter object
NextAuth ==
    \/ \E adapter \in Adapters : Construct(adapter)
    \/ \E credentials \in Credentials, vendorOk \in BOOLEAN :
          Authenticate(credentials, vendorOk)
    \/ TokenExpires

SpecAuth == Init /\ [][NextAuth]_vars

\* single-call syncs run one after another; getAIContent may fail
NextAI ==
    \/ Deliver("w1")
    \/ WorkerStep("w1")
    \/ WorkerAIContentFails("w1")

SpecAI == Init /\ [][NextAI]_vars

\* JSON.stringify of a payload with the members given
Payload(eventKey, event, idKey, id) ==
    "{\"" \o eventKey \o "\":\"" \o event \o "\",\"" \o idKey \o "\":\"" \o id \o "\"}"

Bodies ==
    {"", "invalid json", "null", "42", "{}",
     "{\"eventType\":\"CALL_PROCESSING_COMPLETED\"}",
     "{\"callId\":\"c1\"}",
     Payload("eventType", "CALL_PROCESSING_COMPLETED", "callId", ""),
     Payload("eventType", "CALL_CREATED", "callId", "c1"),
     Payload("eventType", "CALL_PROCESSING_COMPLETED", "callId", "c1"),
     Payload("eventType", "CALL_PROCESSING_COMPLETED", "callId", "c3"),
     Payload("event", "transcription_complete", "transcriptId", "c1"),
     Payload("event", "call.transcribed", "callId", "c1"),
     Payload("event", "call.started", "callId", "c1")}

\* the deployment has no webhook secret, or this one
Secrets == {"", "s3cret"}

\* the x-gong-signature headers of the requests: none, the signature of the body
\* with and without its prefix, and the signature under another secret
Signatures(body) ==
    {"", Hmac("s3cret", body), "sha256=" \o Hmac("s3cret", body),
     "sha256=" \o Hmac("guess", body)}

\* whether a request gets as far as the signature check and the send
PassesValidation(platform, method, body) ==
    /\ method = "POST"
    /\ JsonKind(body) = "object"
    /\ JsonMember(body, EventKey(platform)) \in CompleteEvents(platform)
    /\ ~Falsy(JsonMember(body, IdKey(platform)))

\* requests arrive at the webhook endpoints while time passes; the secret, the
\* signature and the outcome of the send vary for the requests that get as far
\* as these steps
HookRequests ==
    UNION {{[platform |-> platform, method |-> method, body |-> body,
             secret |-> secret, header |-> header, send |-> send] :
               platform \in HookPlatforms, method \in {"POST", "GET"},
               secret \in Secrets, header \in Signatures(body), send \in SendOutcomes} :
           body \in Bodies}

VariedRequests ==
    {r \in HookRequests :
        /\ (r.secret # "" \/ r.header # "" \/ r.send # "accepted") =>
              PassesValidation(r.platform, r.method, r.body)
        /\ r.secret = "" => r.header \in {"", "sha256=" \o Hmac("s3cret", r.body)}}

NextHooks ==
    \/ \E r \in VariedRequests :
          WebhookRequest(r.platform, r.method, r.body, r.secret, r.header, r.send)
    \/ Tick

SpecHooks == Init /\ [][NextHooks]_vars

\* the platform identifiers and secret names callers pass
FactoryPlatforms == {"gong", "clari", "fathom", "invalid", "gong-api"}
SecretNames == {"credentials", "api-credentials"}

\* calls of the factory
NextFactory ==
    \/ \E platform \in FactoryPlatforms, secretName \in SecretNames :
          CreateClient(platform, secretName)
    \/ ClearCache

SpecFactory == Init /\ [][NextFactory]_vars

\* single-call syncs run one after another while the vendor re-transcribes
NextResync ==
    \/ Deliver("w1")
    \/ WorkerStep("w1")
    \/ Revise

SpecResync == Init /\ [][NextResync]_vars

\* the association service is called before the first sync, calls are ingested by
\* a queue consumer, and a user reassociates them between the syncs
NextKeep ==
    \/ \E t \in VendorTranscripts :
          delivered = 0 /\ Len(assocLog) < MaxSeedCalls /\ DirectCall(t)
    \/ SvcStep
    \/ DirectReturn
    \/ (svc.pc = "idle" /\ reassoc.pc = "idle" /\ Deliver("w1"))
    \/ WorkerStep("w1")
    \/ \E transcriptId \in CallIds, newAccountId \in AccountIds :
          /\ svc.pc = "idle"
          /\ workers["w1"].pc = "idle"
          /\ ReassocBegin(transcriptId, newAccountId, "merged account", "user-1")
    \/ ReassocUpdate

SpecKeep == Init /\ [][NextKeep]_vars

\* the attendee lists of the calls a caller hands to the service directly
AttendeeEmails == {"jane@acme.com", "bob@acme.com", "amy@beta.io", "Sam@Gmail.com"}

AttendeeLists ==
    UNION {[1..n -> {Attendee(e, "") : e \in AttendeeEmails}] : n \in 1..MaxAttendees}

\* the call of a customer and a colleague, neither with a company field
RoundtripCall ==
    [GetTranscript("gong", "c1") EXCEPT !.metadata.attendees =
        <<Attendee("jane@roundtrip.io", ""), Attendee("rep@ourcompany.com", "")>>]

DirectTranscripts ==
    {[GetTranscript("gong", "c1") EXCEPT !.metadata.attendees = atts] : atts \in AttendeeLists}
        \cup {RoundtripCall}

\* domain rules for a company domain and for a mail provider's domain
DomainRules ==
    { Rule("domain-beta", "domain", "beta.io", "uuid-beta", 3, TRUE),
      Rule("domain-gmail", "domain", "gmail.com", "uuid-gmail", 2, TRUE) }

\* the service resolves calls of any attendee list, with and without rules
NextHeuristic ==
    \/ \E t \in DirectTranscripts : Len(assocLog) < MaxHeuristicCalls /\ DirectCall(t)
    \/ SvcStep
    \/ DirectReturn
    \/ \E rule \in DomainRules : svc.pc = "idle" /\ addCustomRule(rule)

SpecHeuristic == Init /\ [][NextHeuristic]_vars

\* the calls a listing of the vendor's calls 1..n stands for
CallsOf(result) == [i \in 1..Len(result) |-> VendorCalls[result[i]]]

\* const calls = await client.listCalls({startDate, endDate, limit}); then the loop
SyncBegin ==
    /\ listing.pc = "returned"
    /\ listing.adapter = "gong"
    /\ bulkRuns = 0
    /\ BulkStart("handler", "gong", CallsOf(listing.result))

\* one scheduled sync: the handler lists the calls of the window page by page
\* and then processes them
NextSync ==
    \/ \E limit \in Limits, size \in 0..MaxListed, vendorPage \in 1..MaxVendorPage :
          ListStart("gong", limit, size, vendorPage)
    \/ ListPage
    \/ \E fault \in {"error", "nolist"} : ListPageFails(fault)
    \/ SyncBegin
    \/ BulkStep
    \/ SvcStep

SpecSync == Init /\ [][NextSync]_vars

\* one GongClient with OAuth credentials serves API calls while its token ages
NextToken ==
    \/ Construct("gong")
    \/ \E vendorOk \in BOOLEAN : Authenticate(Creds("", "id1", "s1"), vendorOk)
    \/ TokenExpires
    \/ \E op \in ApiOps, vendorOk \in BOOLEAN, status \in {"200", "401", "500"},
          more \in BOOLEAN : ApiCall(op, vendorOk, status, more)
    \/ \E status \in {"200", "401", "500"}, more \in BOOLEAN : ApiNextPage(status, more)

SpecToken == Init /\ [][NextToken]_vars

\* the legacy service runs full and recent syncs, one after another
NextLegacy ==
    \/ \E batches \in 0..MaxLegacyBatches : SyncAllStart(batches)
    \/ \E ok \in BOOLEAN : SyncAllBatch(ok)
    \/ \E ok \in BOOLEAN : SyncRecent(ok)
    \/ NewDay

SpecLegacy == Init /\ [][NextLegacy]_vars

(***************************************************************************)
(* Properties.                                                             *)
(***************************************************************************)
\* the persisted transcripts of the call (platform, callId)
RowsOfCall(platform, callId) ==
    {t \in transcripts : t.id = callId /\ t.platform = platform}

SameCall(a, b) == a.platform = b.platform /\ a.callId = b.callId

\* C1: when single-call sync is run twice for the same (platform, callId), the
\* second run starting after the first has finished, the second run completes
\* without error as an update and exactly one transcript of that call is persisted.
C1_ResyncIsUpdate ==
    \A i, j \in 1..Len(runLog) :
        (i < j /\ SameCall(runLog[i], runLog[j]) /\ runLog[j].startedAfter >= i) =>
            /\ runLog[j].outcome = "fulfilled"
            /\ runLog[j].updated
            /\ Cardinality(RowsOfCall(runLog[j].platform, runLog[j].callId)) = 1

\* C2: two single-call syncs of the same call that overlap in time, each doing
\* its account lookup (the call has a primary domain), both complete without
\* error, and exactly one transcript row of that call exists afterwards.
C2_ConcurrentSyncsSucceed ==
    \A i, j \in 1..Len(runLog) :
        (/\ i < j /\ SameCall(runLog[i], runLog[j]) /\ runLog[j].startedAfter < i
         /\ LambdaPrimaryDomain(GetTranscript(runLog[j].platform, runLog[j].callId))
                # NoDomain) =>
            /\ runLog[i].outcome = "fulfilled"
            /\ runLog[j].outcome = "fulfilled"
            /\ Cardinality(RowsOfCall(runLog[j].platform, runLog[j].callId)) = 1

AllDetails ==
    Range(bulk.details) \cup UNION {Range(bulkLog[k].details) : k \in 1..Len(bulkLog)}

\* C3: createTranscript for a call id that is already persisted does not fail: the
\* bulk sync never records a call as error because of the uniqueness violation.
C3_DuplicateInsertIsNoError ==
    \A d \in AllDetails :
        d.status = "error" => d.info # "Failed to create transcript: 23505"

\* C4: every bulk sync accounts for every listed call: while it runs, one detail
\* per call handled so far, in listing order, and the counters add up to their
\* number; in its summary processed + skipped + errors = total = N.
Accounted(calls, n, processed, skipped, errors, details) ==
    /\ processed + skipped + errors = n
    /\ Len(details) = n
    /\ \A i \in 1..n : details[i].callId = calls[i]
    /\ Cardinality({i \in 1..n : details[i].status = "success"}) = processed
    /\ Cardinality({i \in 1..n : details[i].status = "skipped"}) = skipped
    /\ Cardinality({i \in 1..n : details[i].status = "error"}) = errors

C4_BatchAccounting ==
    /\ bulk.pc # "idle" =>
          Accounted(bulk.calls, bulk.idx - 1, bulk.processed, bulk.skipped, bulk.errors,
                    bulk.details)
    /\ \A k \in 1..Len(bulkLog) :
          /\ bulkLog[k].total = Len(bulkLog[k].calls)
          /\ Accounted(bulkLog[k].calls, bulkLog[k].total, bulkLog[k].processed,
                       bulkLog[k].skipped, bulkLog[k].errors, bulkLog[k].details)

\* a finished sync of two calls in which one call failed on an injected failure
\* and the other was processed
C4_Witness ==
    \E k \in 1..Len(bulkLog) :
        /\ bulkLog[k].total >= 2
        /\ bulkLog[k].failures >= 1
        /\ bulkLog[k].errors >= 1
        /\ bulkLog[k].processed >= 1

\* C5: when a bulk sync persisted all N calls of its listing, the next bulk sync
\* of the same listing (no call or store failing) reports processed = 0,
\* skipped = N, errors = 0 and performs no transcript fetch and no write.
C5_RerunSkipsAll ==
    \A k \in 2..Len(bulkLog) :
        (/\ bulkLog[k - 1].errors = 0
         /\ bulkLog[k].calls = bulkLog[k - 1].calls
         /\ bulkLog[k].platform = bulkLog[k - 1].platform
         /\ bulkLog[k].failures = 0) =>
            /\ bulkLog[k].processed = 0
            /\ bulkLog[k].skipped = bulkLog[k].total
            /\ bulkLog[k].errors = 0
            /\ bulkLog[k].fetches = 0
            /\ bulkLog[k].writes = 0

\* C6: with association calls run one after another, at most one account exists
\* per domain, and every call resolving a primary domain is given the one account
\* of that domain: two calls with the same primary domain get the same account
\* id and the later one creates no account.
C6_OneAccountPerDomain ==
    /\ \A a, b \in accounts : a.domain = b.domain => a = b
    /\ \A i \in 1..Len(assocLog) :
          assocLog[i].primaryDomain # NoDomain =>
              /\ assocLog[i].rule # "<threw>"
              /\ assocLog[i].accountId \in AccountIds
    /\ \A i, j \in 1..Len(assocLog) :
          (i < j /\ assocLog[i].primaryDomain # NoDomain
                 /\ assocLog[i].primaryDomain = assocLog[j].primaryDomain) =>
              /\ assocLog[j].accountId = assocLog[i].accountId
              /\ ~assocLog[j].created

\* two different calls resolved the same primary domain: the first created the
\* account, the second reused it
C6_Witness ==
    \E i, j \in 1..Len(assocLog) :
        /\ i < j
        /\ ~SameCall(assocLog[i], assocLog[j])
        /\ assocLog[i].primaryDomain # NoDomain
        /\ assocLog[i].primaryDomain = assocLog[j].primaryDomain
        /\ assocLog[i].created
        /\ assocLog[j].accountId = assocLog[i].accountId

\* C7: also when association runs overlap, every run that resolved a primary
\* domain returns, without failing, the id of the existing account of that domain.
C7_RaceReusesAccount ==
    \A i \in 1..Len(assocLog) :
        assocLog[i].primaryDomain # NoDomain =>
            /\ assocLog[i].rule # "<threw>"
            /\ \E a \in accounts : /\ a.id = assocLog[i].accountId
                                   /\ a.domain = assocLog[i].primaryDomain

\* C8: a call that was ingested successfully is persisted as the transcript of
\* its own (platform, id), holding its own text, whatever was ingested from
\* another platform under the same vendor id.
C8_IdentityIsPlatformAndId ==
    \A i \in 1..Len(runLog) :
        runLog[i].outcome = "fulfilled" =>
            \E t \in RowsOfCall(runLog[i].platform, runLog[i].callId) :
                t.full_text = GetTranscript(runLog[i].platform, runLog[i].callId).fullText

\* whether the active rule matches the transcript
Matches(rule, transcript) == rule.active /\ evaluateRule(rule, transcript) # NoResult

\* the outcome of the custom-rule stage of a call that has just begun
RuleOutcomeOk(frame, rules) ==
    IF frame.pc = "returned"
    THEN \E r \in Range(rules) :
            /\ Matches(r, frame.transcript)
            /\ frame.result.accountId = r.accountId
            /\ frame.result.rule = r.name
            /\ \A q \in Range(rules) :
                  Matches(q, frame.transcript) => q.priority <= r.priority
    ELSE \A q \in Range(rules) : ~Matches(q, frame.transcript)

\* C9: determineAccountAssociation returns the result of a matching active rule
\* of highest priority, and goes on to the domain heuristic only when no active
\* rule matches.
C9_RulePrecedence ==
    [][(svc.pc = "idle" /\ svc'.pc # "idle") => RuleOutcomeOk(svc', customRules)]_vars

\* a manual rule of higher priority won while a domain rule of lower priority matched
C9_Witness ==
    /\ svc.pc = "returned"
    /\ \E r, q \in Range(customRules) :
          /\ r.type = "manual" /\ q.type = "domain"
          /\ q.priority < r.priority
          /\ Matches(q, svc.transcript)
          /\ svc.result.rule = r.name

PersonalDomains ==
    {"gmail.com", "yahoo.com", "hotmail.com", "outlook.com", "icloud.com", "me.com",
     "aol.com", "protonmail.com", "tutanota.com"}

\* C10: no association, by the service or by the queue consumer, picks a
\* deny-listed personal domain as primary domain, and no account exists for one.
C10_NoPersonalDomain ==
    /\ \A a \in accounts : ToLowerCase(a.domain) \notin PersonalDomains
    /\ \A i \in 1..Len(assocLog) :
          assocLog[i].primaryDomain # NoDomain =>
              ToLowerCase(assocLog[i].primaryDomain) \notin PersonalDomains

\* C11: every result returned by determineAccountAssociation, by a custom rule,
\* by the domain heuristic or by the fallback, has 0 <= confidence <= 1.
C11_ConfidenceInUnitInterval ==
    svc.pc = "returned" =>
        /\ svc.result.confidence.den > 0
        /\ 0 <= svc.result.confidence.num
        /\ svc.result.confidence.num <= svc.result.confidence.den

\* the heuristic returned for a call whose dominance plus 0.3 exceeds 1: the
\* confidence is the cap 0.9
C11_Witness ==
    /\ svc.pc = "returned"
    /\ svc.result.rule = "domain-based"
    /\ LET u == UncappedConfidence(extractExternalDomains(svc.transcript.metadata.attendees),
                                   svc.primaryDomain)
       IN  u.num > u.den
    /\ svc.result.confidence = Confidence(9, 10)

\* C12: when the service resolves the same call without usable attendee domain
\* twice, one run after the other, both runs return, with the same account id,
\* and exactly one placeholder account keyed by the call id exists.
C12_FallbackReused ==
    \A i, j \in 1..Len(assocLog) :
        (/\ i < j
         /\ assocLog[i].path = "service" /\ assocLog[j].path = "service"
         /\ SameCall(assocLog[i], assocLog[j])
         /\ assocLog[i].primaryDomain = NoDomain /\ assocLog[j].primaryDomain = NoDomain) =>
            /\ assocLog[i].rule = "fallback"
            /\ assocLog[j].rule = "fallback"
            /\ assocLog[j].accountId = assocLog[i].accountId
            /\ Cardinality(AccountsWithDomain("unknown-" \o assocLog[i].callId)) = 1

\* the reassociateTranscript calls that returned, oldest first
Reassociated == SelectSeq(reassocLog, LAMBDA r : r.outcome = "returned")

\* C13: the audit trail holds one record per successful reassociateTranscript, in
\* order, carrying the transcript id, the previous account id, the new account id,
\* the reason and the actor.
C13_ReassociationAudited ==
    /\ Len(audit) = Len(Reassociated)
    /\ \A k \in 1..Len(Reassociated) :
          k <= Len(audit) =>
              /\ audit[k].transcript_id = Reassociated[k].transcriptId
              /\ audit[k].old_account_id = Reassociated[k].oldAccountId
              /\ audit[k].new_account_id = Reassociated[k].newAccountId
              /\ audit[k].reason = Reassociated[k].reason
              /\ audit[k].changed_by = Reassociated[k].userId

\* C14: an invocation of the queue consumer in which the processing of a record
\* failed ends in failure, so that the message is not deleted.
C14_RecordFailureFailsInvocation ==
    \A k \in 1..Len(invLog) :
        (\E m \in DOMAIN invLog[k].results : invLog[k].results[m] = "rejected") =>
            invLog[k].outcome = "failed"

\* C15: a message is delivered at most maxReceiveCount times, and it leaves the
\* queue without entering the dead-letter queue only when a delivery of it was
\* processed successfully.
C15_FailedMessageIsKept ==
    \A m \in MsgIds :
        /\ queue[m].receives <= maxReceiveCount
        /\ queue[m].state = "deleted" =>
              \E k \in 1..Len(invLog) :
                  /\ m \in DOMAIN invLog[k].results
                  /\ invLog[k].results[m] = "fulfilled"

\* the number of calls a finished bulk sync recorded as error with the adapter
\* error of one of the vendor failures
ErrorsOf(summary, statuses) ==
    Cardinality({i \in 1..Len(summary.details) :
        /\ summary.details[i].status = "error"
        /\ \E status \in statuses :
              summary.details[i].info = handleApiError(summary.platform, status)})

\* C16: a call is recorded as error for a transient vendor failure (429, 5xx) only
\* after it was retried: a bulk sync made at least two transcript fetches for each
\* such call, besides one for each call it processed.
C16_TransientFailureIsRetried ==
    \A k \in 1..Len(bulkLog) :
        bulkLog[k].fetches >= bulkLog[k].processed + 2 * ErrorsOf(bulkLog[k], {"429", "500"})

\* C17: a call is recorded as error for an authentication failure (401) only
\* after one re-authenticate-and-retry cycle: a bulk sync made two transcript
\* fetches for each such call, besides one for each call it processed.
C17_AuthFailureIsRetriedOnce ==
    \A k \in 1..Len(bulkLog) :
        bulkLog[k].fetches >= bulkLog[k].processed + 2 * ErrorsOf(bulkLog[k], {"401"})

\* C18: when a page fetch of listCalls failed, by a request error or by a response
\* without call list, listCalls does not return: it fails as a whole.
C18_ListingIsAllOrNothing ==
    listing.faults > 0 => listing.pc # "returned"

\* C19: when no page fetch fails, listCalls returns the first min(limit, size)
\* calls of the vendor in vendor order, each once, and it requested no page after
\* limit calls were gathered or the vendor signalled no further page.
C19_ListingIsLimitedPrefix ==
    (listing.pc = "returned" /\ listing.faults = 0) =>
        /\ listing.result = [i \in 1..Min(listing.limit, listing.size) |-> i]
        /\ ~listing.overfetched

\* the credentials an adapter accepts
Complete(adapter, k) ==
    IF adapter = "gong"
    THEN \/ (k.apiKey # "" /\ k.clientSecret # "" /\ k.clientId = "")
         \/ (k.clientId # "" /\ k.clientSecret # "" /\ k.apiKey = "")
    ELSE k.apiKey # ""

\* the Authorization header that authorises requests with the credentials k
AuthorizationOf(adapter, k) ==
    IF adapter = "gong"
    THEN IF k.clientId = "" THEN "Basic " \o Base64(k.apiKey \o ":" \o k.clientSecret)
                            ELSE "Bearer " \o IssuedToken(k)
    ELSE "Bearer " \o k.apiKey

\* C20: authenticate called again on an adapter does not fail for being called
\* again, and after a successful authenticate(c) the requests of the adapter carry
\* the authorisation of c: nothing is left over from the credentials of an earlier
\* call.
C20_AuthenticateReestablishes ==
    /\ client.outcome = "threw" =>
          client.vendorFailed \/ ~Complete(client.adapter, client.credentials)
    /\ client.outcome = "ok" =>
          /\ client.authorization = AuthorizationOf(client.adapter, client.credentials)
          /\ client.adapter = "clari" =>
                client.orgPassword = client.credentials.clientSecret

\* C21: a failure of getAIContent never changes the outcome of a single-call sync:
\* a run in which it threw ends as the runs of the same call in which it did not,
\* and when it is fulfilled the call is persisted with its AI content absent.
C21_AIFailureIsHarmless ==
    /\ \A i, j \in 1..Len(runLog) :
          (SameCall(runLog[i], runLog[j]) /\ runLog[i].aiFailed /\ ~runLog[j].aiFailed) =>
              runLog[i].outcome = runLog[j].outcome
    /\ \A i \in 1..Len(runLog) :
          runLog[i].aiFailed => runLog[i].error # "AI content not available"
    /\ (/\ workers["w1"].pc = "idle" /\ runLog # <<>>
        /\ runLog[Len(runLog)].aiFailed
        /\ runLog[Len(runLog)].outcome = "fulfilled") =>
           \E t \in TranscriptsWithId(runLog[Len(runLog)].callId) :
               /\ t.ai_content = NullContent
               /\ t.account_id \in AccountIds

\* a call was ingested with its AI content, then again while getAIContent threw:
\* both runs are fulfilled and the row holds no AI content
C21_Witness ==
    /\ workers["w1"].pc = "idle"
    /\ Len(runLog) = 2
    /\ SameCall(runLog[1], runLog[2])
    /\ ~runLog[1].aiFailed /\ runLog[2].aiFailed
    /\ runLog[1].outcome = "fulfilled" /\ runLog[2].outcome = "fulfilled"
    /\ \E t \in TranscriptsWithId(runLog[2].callId) : t.ai_content = NullContent

\* whether the body is JSON carrying the event and the call id the handler requires
HasRequiredFields(platform, body) ==
    /\ JsonKind(body) = "object"
    /\ ~Falsy(JsonMember(body, EventKey(platform)))
    /\ ~Falsy(JsonMember(body, IdKey(platform)))

\* C22: a Gong webhook request enqueues a message only if it is a POST whose body
\* is JSON with the event and the call id, the event being the processing-complete
\* kind; a non-POST request is answered 405, a missing or malformed body or a
\* missing field 400, any other event 200, and none of these enqueues.
C22_WebhookValidation ==
    \A i \in 1..Len(hooks.log) :
        LET r == hooks.log[i]
            fields == HasRequiredFields("gong", r.body)
            complete == JsonMember(r.body, "eventType") = "CALL_PROCESSING_COMPLETED"
        IN  r.platform = "gong" =>
               /\ r.enqueued => (r.method = "POST" /\ fields /\ complete)
               /\ r.method # "POST" => r.status = 405
               /\ (r.method = "POST" /\ ~fields) => r.status = 400
               /\ (r.method = "POST" /\ fields /\ ~complete) => r.status = 200

\* C23: two deliveries of the same webhook (same platform and call id) are sent
\* with the same deduplication token, a function of platform and call id only,
\* so that the queue holds a single message of the call.
C23_RedeliveryIsDeduplicated ==
    /\ \A i, j \in 1..Len(hooks.sends) :
          (/\ hooks.sends[i].platform = hooks.sends[j].platform
           /\ hooks.sends[i].callId = hooks.sends[j].callId) =>
              hooks.sends[i].dedupId = hooks.sends[j].dedupId
    /\ \A i, j \in 1..Len(hooks.accepted) :
          (/\ hooks.accepted[i].platform = hooks.accepted[j].platform
           /\ hooks.accepted[i].callId = hooks.accepted[j].callId) => i = j

\* the createClient calls of the log that returned an adapter
Returned(i) == factory.log[i].op = "createClient" /\ factory.log[i].outcome = "returned"

\* C24: createClient returns the same instance for the same (platform, secretName)
\* since the last clearCache and a distinct one for another key or after a
\* clearCache; for a supported platform it returns an adapter of that platform,
\* for any other platform it throws and leaves the cache unchanged.
C24_FactoryCache ==
    /\ \A i, j \in 1..Len(factory.log) :
          (i < j /\ Returned(i) /\ Returned(j)) =>
              (factory.log[i].instance = factory.log[j].instance
                 <=> /\ factory.log[i].platform = factory.log[j].platform
                     /\ factory.log[i].secretName = factory.log[j].secretName
                     /\ factory.log[i].epoch = factory.log[j].epoch)
    /\ \A i \in 1..Len(factory.log) :
          factory.log[i].op = "createClient" =>
              IF factory.log[i].platform \in SupportedPlatforms
              THEN /\ factory.log[i].outcome = "returned"
                   /\ factory.log[i].instance.class = factory.log[i].platform
              ELSE /\ factory.log[i].outcome = "threw"
                   /\ factory.log[i].after = factory.log[i].before

\* the account single-call sync assigns to a transcript from the current state
\* (determineAccountAssociation of the queue consumer, run without interleaving)
LambdaAssignment(transcript) ==
    LET domain == LambdaPrimaryDomain(transcript)
    IN  IF domain = NoDomain
        THEN [accountId |-> "unknown-" \o transcript.callId, domain |-> NoDomain]
        ELSE IF AccountsWithDomain(domain) # {}
        THEN [accountId |-> (CHOOSE a \in AccountsWithDomain(domain) : TRUE).id,
              domain |-> domain]
        ELSE [accountId |-> NewAccountId, domain |-> domain]

\* the account bulk sync assigns to it from the current state
\* (AccountAssociationService.determineAccountAssociation, run without interleaving)
ServiceAssignment(transcript) ==
    LET frame == SvcBegin("bulk", transcript)
        fallback == "unknown-" \o transcript.callId
    IN  CASE frame.pc = "returned" ->
                [accountId |-> frame.result.accountId, domain |-> "<rule>"]
          [] frame.pc = "createFallback" ->
                [accountId |-> IF AccountInsertError(fallback) = "none"
                               THEN NewAccountId ELSE "<threw>",
                 domain |-> fallback]
          [] OTHER ->
                IF AccountsWithDomain(frame.primaryDomain) # {}
                THEN [accountId |-> (CHOOSE a \in AccountsWithDomain(frame.primaryDomain) :
                                        TRUE).id,
                      domain |-> frame.primaryDomain]
                ELSE [accountId |-> NewAccountId, domain |-> frame.primaryDomain]

\* C25: from every persisted state and for every transcript, single-call sync and
\* bulk sync assign the same account: the same id, for the same domain.
C25_EntryPointsAgree ==
    \A transcript \in VendorTranscripts :
        LambdaAssignment(transcript).accountId = ServiceAssignment(transcript).accountId

\* the persisted segment rows of a transcript, in table order
SegmentsOf(transcriptId) == SelectSeq(segments, LAMBDA s : s.transcript_id = transcriptId)

\* the call is persisted with the complete segment list of its transcript
CompletelyPersisted(platform, callId) ==
    /\ RowsOfCall(platform, callId) # {}
    /\ SegmentsOf(callId) = SegmentRows(callId, GetTranscript(platform, callId).segments)

\* C26: when a bulk sync in which calls failed is followed by a bulk sync of the
\* same listing in which nothing fails, every listed call is afterwards persisted
\* with its complete segment list; and a call is reported skipped only when it is
\* completely persisted.
C26_RerunCompletesFailedCalls ==
    (bulk.pc = "idle" /\ Len(bulkLog) >= 2) =>
        LET last == bulkLog[Len(bulkLog)]
        IN  /\ last.failures = 0 =>
                  \A i \in 1..Len(last.calls) :
                      CompletelyPersisted(last.platform, last.calls[i])
            /\ \A i \in 1..Len(last.details) :
                  last.details[i].status = "skipped" =>
                      CompletelyPersisted(last.platform, last.details[i].callId)

\* the texts of segment rows, ordered by sequence_number from n on
RECURSIVE TextsInOrder(_, _)
TextsInOrder(rows, n) ==
    IF \A i \in 1..Len(rows) : rows[i].sequence_number < n THEN <<>>
    ELSE LET here == SelectSeq(rows, LAMBDA s : s.sequence_number = n)
         IN  [i \in 1..Len(here) |-> here[i].text] \o TextsInOrder(rows, n + 1)

\* C27: when a single-call sync of a call has completed, first ingestion or
\* re-sync, the persisted segments of the call are exactly those of the
\* transcript it fetched, none of an earlier version remaining, and the persisted
\* full text is their texts joined in sequence order.
C27_TextMatchesSegments ==
    (workers["w1"].pc = "idle" /\ runLog # <<>> /\ runLog[Len(runLog)].outcome = "fulfilled") =>
        LET run == runLog[Len(runLog)]
        IN  /\ SegmentsOf(run.callId) = SegmentRows(run.callId, run.segments)
            /\ \A t \in TranscriptsWithId(run.callId) :
                  t.full_text = JoinText(TextsInOrder(SegmentsOf(run.callId), 0))

\* C28: after two single-call syncs of the same call that overlapped in time and
\* both completed, the persisted segments of the call are exactly one copy of the
\* segments of the fetched transcript: each sequence number 0..n-1 occurs once.
C28_ConcurrentSegmentsOnce ==
    (\A w \in Workers : workers[w].pc = "idle") =>
        \A i, j \in 1..Len(runLog) :
            (/\ i < j /\ SameCall(runLog[i], runLog[j]) /\ runLog[j].startedAfter < i
             /\ runLog[i].outcome = "fulfilled" /\ runLog[j].outcome = "fulfilled"
             /\ \A k \in (j + 1)..Len(runLog) : runLog[k].callId # runLog[j].callId) =>
                \A n \in 0..(Len(runLog[j].segments) - 1) :
                    Cardinality({k \in 1..Len(segments) :
                        /\ segments[k].transcript_id = runLog[j].callId
                        /\ segments[k].sequence_number = n}) = 1

\* C29: every persisted transcript references an existing account, and every
\* sync path, single-call or bulk, that is about to insert a transcript does so
\* under the id of an existing account.
C29_AccountExists ==
    /\ \A t \in transcripts : t.account_id \in AccountIds
    /\ \A w \in Workers :
          workers[w].pc = "insertTranscript" => workers[w].accountId \in AccountIds
    /\ bulk.pc = "createTranscript" => bulk.accountId \in AccountIds

\* C30: a step of a single-call sync leaves the account_id of every persisted
\* transcript as it was, so that the account set by reassociateTranscript survives
\* a later sync of the same call, whatever account that sync computed.
C30_ResyncKeepsAccount ==
    [][reassoc' = reassoc =>
          \A t \in transcripts :
              \E u \in transcripts' : u.id = t.id /\ u.account_id = t.account_id]_vars

\* a call was reassociated, a sync of it that began afterwards computed another
\* account and updated the row, and the row still has the reassociated account
C30_Witness ==
    \E k \in 1..Len(reassocLog), j \in 1..Len(runLog), t \in transcripts :
        /\ reassocLog[k].outcome = "returned"
        /\ reassocLog[k].newAccountId # reassocLog[k].oldAccountId
        /\ runLog[j].outcome = "fulfilled"
        /\ runLog[j].updated
        /\ runLog[j].callId = reassocLog[k].transcriptId
        /\ runLog[j].startedAfter >= reassocLog[k].delivered
        /\ runLog[j].accountId # reassocLog[k].newAccountId
        /\ t.id = runLog[j].callId
        /\ t.account_id = reassocLog[k].newAccountId

\* the position at which a domain is first seen
FirstSeen(domains, d) == CHOOSE i \in 1..Len(domains) :
                            domains[i] = d /\ \A j \in 1..(i - 1) : domains[j] # d

\* C31: when no custom rule matches and some attendee has a domain that is not
\* deny-listed, the heuristic answers; its primary domain has the most attendees
\* among the remaining domains, the first seen of those that tie, and its
\* confidence is min(0.9, occurrences / total + 0.3).
C31_MostFrequentDomainWins ==
    LET domains == extractExternalDomains(svc.transcript.metadata.attendees)
        p == svc.primaryDomain
        n == DomainCount(domains, p)
        c == svc.result.confidence
    IN  (/\ svc.pc = "returned"
         /\ \A r \in Range(customRules) : ~Matches(r, svc.transcript)
         /\ Len(domains) > 0) =>
            /\ svc.result.rule = "domain-based"
            /\ n > 0
            /\ \A d \in Range(domains) :
                  \/ DomainCount(domains, d) < n
                  \/ DomainCount(domains, d) = n /\ FirstSeen(domains, p) <= FirstSeen(domains, d)
            /\ IF 10 * n + 3 * Len(domains) <= 9 * Len(domains)
               THEN c.num * 10 * Len(domains) = c.den * (10 * n + 3 * Len(domains))
               ELSE c.num * 10 = c.den * 9
            /\ \E a \in accounts : a.id = svc.result.accountId /\ a.domain = p

\* the heuristic returned a domain seen after another one because it has more
\* attendees
C31_Witness ==
    LET domains == extractExternalDomains(svc.transcript.metadata.attendees)
    IN  /\ svc.pc = "returned"
        /\ svc.result.rule = "domain-based"
        /\ Len(domains) = 3
        /\ domains[1] # svc.primaryDomain
        /\ DomainCount(domains, svc.primaryDomain) = 2

\* C32: an active domain rule with a pattern and a target account matches the
\* transcript of a call exactly when the email domain of some attendee equals
\* the pattern, compared case-insensitively, whatever the pattern.
C32_DomainRuleMatchesDomain ==
    svc.pc # "idle" =>
        \A r \in Range(customRules) :
            (r.type = "domain" /\ r.active /\ r.pattern # "" /\ r.accountId # "") =>
                (Matches(r, svc.transcript) <=>
                    \E a \in Range(svc.transcript.metadata.attendees) :
                        ToLowerCase(EmailDomain(a.email)) = ToLowerCase(r.pattern))

\* C33: with no custom rules and no accounts, the call of jane@roundtrip.io and
\* rep@ourcompany.com resolves to primary domain roundtrip.io with a confidence
\* of 0.9 to two decimal places, and creates the account named "Roundtrip".
C33_RoundtripScenario ==
    (/\ svc.pc = "returned"
     /\ svc.transcript = RoundtripCall
     /\ customRules = <<>>
     /\ Len(assocLog) = 0) =>
        /\ svc.primaryDomain = "roundtrip.io"
        /\ svc.result.created
        /\ \E a \in accounts : a.id = svc.result.accountId /\ a.name = "Roundtrip"
        /\ 200 * svc.result.confidence.num <= 181 * svc.result.confidence.den
        /\ 200 * svc.result.confidence.num >= 179 * svc.result.confidence.den

\* the rules of a list without the rule at position k
Without(rules, k) == SubSeq(rules, 1, k - 1) \o SubSeq(rules, k + 1, Len(rules))

\* C34: the custom rules are always in non-increasing priority order; an
\* addCustomRule adds one rule and keeps the others in their relative order, and
\* a removeCustomRule drops exactly the rules of one id and keeps the others in
\* their relative order, so that the list holds exactly the rules added and not
\* removed since.
C34_RulesStaySorted ==
    [][/\ \A i \in 1..(Len(customRules') - 1) :
             customRules'[i].priority >= customRules'[i + 1].priority
       /\ \/ customRules' = customRules
          \/ /\ Len(customRules') = Len(customRules) + 1
             /\ \E k \in 1..Len(customRules') :
                   /\ customRules'[k] \in RuleInputs
                   /\ Without(customRules', k) = customRules
          \/ /\ Len(customRules') < Len(customRules)
             /\ \E id \in {r.id : r \in Range(customRules)} :
                   customRules' = SelectSeq(customRules, LAMBDA r : r.id # id)]_vars

\* three rules were added and are held by priority 4, 3, 1
C34_Witness ==
    /\ Len(customRules) = 3
    /\ customRules[1].id = "manual-off"
    /\ customRules[2].id = "domain-beta"
    /\ customRules[3].id = "email-beta"

\* the least wait that keeps an adapter under the request rate of its vendor:
\* Gong 3 requests per second, Clari 10 per second, Fireflies as the adapter says
RequiredDelay(adapter) ==
    CASE adapter = "gong"  -> 334
      [] adapter = "clari" -> 100
      [] OTHER             -> 1200

\* C35: every page request of a listCalls after the first was preceded by the
\* wait of its adapter; no two page requests are issued back-to-back.
C35_PagesAreSpaced ==
    \A i \in 1..Len(listing.gaps) :
        listing.gaps[i] > 0 /\ listing.gaps[i] >= RequiredDelay(listing.adapter)

\* C36: at most one page request of the listing is in flight, a page is
\* requested only when every earlier one was answered, and the processing of
\* the calls begins only when the listing has returned.
C36_PagesAreSequential ==
    /\ listing.inflight \in {0, 1}
    /\ listing.inflight = 1 <=> listing.pc = "request"
    /\ (bulk.pc # "idle" \/ bulkLog # <<>>) =>
          /\ listing.pc = "returned"
          /\ listing.inflight = 0

\* the handler processes the calls of a listing that took three page requests
C36_Witness ==
    /\ bulk.pc # "idle"
    /\ bulk.idx = 2
    /\ listing.requests = 3
    /\ Len(bulk.calls) = 3

\* C37: every request of an API call of the OAuth client goes out with a token
\* that has not passed its recorded expiry, and when a request is answered 401
\* the cached token is gone afterwards.
C37_TokenIsFresh ==
    [][\A i \in (Len(client.sent) + 1)..Len(client'.sent) :
          /\ ~client'.sent[i].expired
          /\ client'.sent[i].status = "401" => client'.accessToken = ""]_vars

\* whether a request to the Gong endpoint is a processing-complete webhook
IsCompleteWebhook(r) ==
    r.platform = "gong" /\ PassesValidation("gong", r.method, r.body)

\* C38: with the webhook secret configured, a processing-complete webhook is
\* enqueued only when the request carries the HMAC-SHA256 of its body under
\* the secret; every other one is answered 401 and nothing is enqueued.
C38_SignatureIsRequired ==
    \A k \in 1..Len(hooks.log) :
        LET r == hooks.log[k]
            signed == StripPrefix(r.header) = Hmac(r.secret, r.body)
        IN  (IsCompleteWebhook(r) /\ r.secret # "") =>
                /\ r.enqueued => signed
                /\ ~signed => r.status = 401

\* C39: the Gong handler answers 200 "Webhook processed successfully" only when
\* the queue accepted the message; a request that gets as far as the send and
\* finds no queue URL or a failing send is answered 500 with the detail of the
\* error, and enqueues nothing.
C39_SuccessMeansQueued ==
    \A k \in 1..Len(hooks.log) :
        LET r == hooks.log[k]
        IN  r.platform = "gong" =>
               /\ (r.status = 200 /\ r.message = "Webhook processed successfully") =>
                     (r.enqueued /\ r.send = "accepted")
               /\ (/\ PassesValidation("gong", r.method, r.body)
                   /\ VerifySignature(r.secret, r.header, r.body) # "failed"
                   /\ r.send # "accepted") =>
                     /\ r.status = 500
                     /\ ~r.enqueued
                     /\ r.message \in
                           {"Internal server error: send failed",
                            "Internal server error: TRANSCRIPT_QUEUE_URL environment variable not set"}

\* a webhook whose send failed was answered 500, and its redelivery was queued
C39_Witness ==
    /\ Len(hooks.log) = 2
    /\ hooks.log[1].platform = "gong"
    /\ hooks.log[1].send = "failed"
    /\ hooks.log[1].status = 500
    /\ hooks.log[2].platform = "gong"
    /\ hooks.log[2].body = hooks.log[1].body
    /\ hooks.log[2].status = 200
    /\ hooks.log[2].enqueued
    /\ Len(hooks.accepted) = 1

\* C40: the requests the legacy service issues on one day never exceed
\* maxRequestsPerDay, and a sync that finds the usage of the day at the limit
\* issues none.
C40_DailyLimitIsKept ==
    /\ legacy.requests <= maxRequestsPerDay
    /\ legacy.skipped = 1 => legacy.usage >= maxRequestsPerDay

====
